---- MODULE Spec2Model ----
(***************************************************************************)
(* Model of the memory store and retrieval engine of kaidison-system      *)
(* (src/src/services/enhanced_memory.py): VectorStore, KeywordIndexer and  *)
(* EnhancedMemory.                                                         *)
(*                                                                         *)
(* Texts are sequences of one-character strings followed by `fill` filler  *)
(* characters ("."), so that the length thresholds of the importance       *)
(* heuristic can be reached without enumerating 500 characters.            *)
(* Python values held in a context are written as their literals           *)
(* ("True", "'user'", ...); JSON texts as their JSON spelling.             *)
(* importance is kept in thousandths; a last digit of 1 or 9 stands for    *)
(* one unit in the last place above or below the decimal value, which is   *)
(* what the double-precision sums of _calculate_importance produce.        *)
(***************************************************************************)
EXTENDS Integers, Sequences, FiniteSets, TLC

VARIABLES
    db,         \* the rows of table memories, in rowid order
    index,      \* KeywordIndexer.index: keyword -> list of memory ids
    indexFile,  \* keyword_index.json: NoFile or the map last saved
    vectors,    \* VectorStore.vectors: insertion-ordered id -> embedding
    vectorsFile,\* vectors.json: NoFile or the map last saved
    cache,      \* EnhancedMemory._cache: insertion-ordered keys
    tasks,      \* _check_compression tasks created and not yet run
    exported,   \* the export file: NoFile or the document written
    clock,      \* wall clock in milliseconds (feeds _generate_id)
    now,        \* wall clock in microseconds (feeds timestamp columns)
    issued,     \* the ids remember calls have returned, oldest first
    ret,        \* the last completed call: its arguments and what it returned
    rt,         \* <<steps done of export(all); clear(all); import, rows before>>
    inflight,   \* the calls that have started and not returned, with their locals
    cfg,        \* the constructor's arguments and the optional libraries found
    sop         \* the SOPEngine: _step_outputs, execution_history and its runs

vars == <<db, index, indexFile, vectors, vectorsFile, cache, tasks, exported,
          clock, now, issued, ret, rt, inflight, cfg, sop>>

(***************************************************************************)
(* Bounds of the model.                                                    *)
(***************************************************************************)
MaxRemembers == 3       \* remember calls (direct or through import) per run
MaxAccess == 1          \* recall stops counting accesses beyond this
MaxUuid == 2            \* distinct uuid4 values when draws may repeat
MaxClock == 1           \* milliseconds the clock may advance
MaxEntries == 2         \* entries of a hand-written import file
MaxCached == 102        \* remember calls of a run that fills the cache
MaxRuns == 2            \* execute_sop calls on one SOPEngine

\* A file of the storage directory: missing, or holding data
NoFile == [exists |-> FALSE]

File(data) == [exists |-> TRUE, data |-> data]

\* A file that exists and cannot be read as a JSON object (cut short by a
\* failed write, damaged, not a regular file)
CorruptFile == [exists |-> TRUE, corrupt |-> TRUE]

Readable(file) == file.exists /\ "data" \in DOMAIN file

\* What can go wrong with the storage during one call: nothing, the INSERT
\* raising, or json.dump to an index file failing at open() or after it
Faults ==
    {"none", "insert", "index_file_open", "index_file_write",
     "vectors_file_open", "vectors_file_write"}

\* The file after with open(file, 'w') ... json.dump(new): open() failing
\* leaves it as it was, a failure after open() leaves it cut short
SaveOutcome(old, new, fault, file) ==
    IF fault = file \o "_open" THEN old
    ELSE IF fault = file \o "_write" THEN CorruptFile
    ELSE File(new)

\* Python's None, among strings, ids, embeddings and time stamps
\* No call is between two of its storage operations
Idle == [pc |-> "idle"]

NoCalls == [recall |-> Idle, compress |-> Idle, clear |-> Idle]

None == "None"

NoId == <<0, 0>>

NoEmbedding == <<0 - 1>>

Never == 0 - 1

(***************************************************************************)
(* Small helpers.                                                          *)
(***************************************************************************)
Range(s) == {s[i] : i \in 1..Len(s)}

Min2(a, b) == IF a < b THEN a ELSE b

Max2(a, b) == IF a > b THEN a ELSE b

Take(s, n) == SubSeq(s, 1, Min2(n, Len(s)))

Drop(s, n) == SubSeq(s, Min2(n, Len(s)) + 1, Len(s))

\* Tuple comparison of Python: a > b for two tuples of integers of one length
RECURSIVE KeyGreater(_, _)
KeyGreater(a, b) ==
    IF a = <<>> \/ b = <<>> THEN FALSE
    ELSE IF Head(a) # Head(b) THEN Head(a) > Head(b)
    ELSE KeyGreater(Tail(a), Tail(b))

RECURSIVE InsertDesc(_, _)
\* x put into s, which is sorted by descending key, behind every element whose
\* key is not smaller than its own
InsertDesc(s, x) ==
    IF s = <<>> THEN <<x>>
    ELSE IF KeyGreater(x.key, Head(s).key) THEN <<x>> \o s
    ELSE <<Head(s)>> \o InsertDesc(Tail(s), x)

RECURSIVE SortDesc(_)
\* list.sort(key=..., reverse=True) on a list of [key, val]: descending by
\* key, elements of equal key keep their original relative order
SortDesc(s) ==
    IF s = <<>> THEN <<>>
    ELSE InsertDesc(SortDesc(SubSeq(s, 1, Len(s) - 1)), s[Len(s)])

Vals(s) == [i \in 1..Len(s) |-> s[i].val]

(***************************************************************************)
(* Texts and the tokenizer.                                                *)
(***************************************************************************)
LowerLetters == {"a", "b", "c", "d", "o", "f", "s"}

UpperLetters == {"A"}

Digits == {"1"}

\* \w of the regular expressions: letters, digits (and underscore)
WordChars == LowerLetters \cup UpperLetters \cup Digits

IsLetter(c) == c \in LowerLetters \cup UpperLetters

\* str.lower() on one character
LowerChar(c) == IF c = "A" THEN "a" ELSE c

Lower(s) == [i \in 1..Len(s) |-> LowerChar(s[i])]

Text(body, fill) == [body |-> body, fill |-> fill]

\* len(content)
Length(t) == Len(t.body) + t.fill

RECURSIVE FindAll(_, _, _, _)
\* re.findall(r'\b[a-zA-Z]+\b', s): the maximal runs of word characters that
\* consist of letters only, left to right.  cur is the run being read and ok
\* tells whether it has held letters only.
FindAll(s, i, cur, ok) ==
    LET done == IF cur # "" /\ ok THEN <<cur>> ELSE <<>>
    IN  IF i > Len(s) THEN done
        ELSE IF s[i] \in WordChars
             THEN FindAll(s, i + 1, cur \o s[i], ok /\ IsLetter(s[i]))
             ELSE done \o FindAll(s, i + 1, "", TRUE)

\* The filler characters are separators and add no token.
Words(t) == FindAll(Lower(t.body), 1, "", TRUE)

Stopwords == {"the", "a", "an", "is", "are", "was", "were", "to", "of", "in",
              "for", "and", "or", "but", "on", "at", "by", "with", "this",
              "that"}

\* KeywordIndexer._extract_keywords, as the set the returned list holds
ExtractKeywords(t) ==
    {w \in Range(Words(t)) : Len(w) > 1 /\ w \notin Stopwords}

IsPrefixAt(q, c, at) ==
    \A i \in 1..Len(q) : at + i - 1 <= Len(c) /\ c[at + i - 1] = q[i]

\* q in c, for sequences of characters
SeqContains(q, c) == \E at \in 1..(Len(c) + 1) : IsPrefixAt(q, c, at)

\* query_lower in content_lower.  No body holds the filler character.
Contains(q, c) ==
    LET qb == Lower(q.body)
        cb == Lower(c.body)
    IN  IF q.fill = 0 THEN SeqContains(qb, cb)
        ELSE /\ q.fill <= c.fill
             /\ Len(qb) <= Len(cb)
             /\ SubSeq(cb, Len(cb) - Len(qb) + 1, Len(cb)) = qb

(***************************************************************************)
(* Contexts: Python dicts from keys to Python literals, and their JSON     *)
(* texts as stored in column context.                                      *)
(***************************************************************************)
\* context.get(key)
Get(context, key) == IF key \in DOMAIN context THEN context[key] ELSE None

\* bool(value)
Truthy(v) == v \notin {"None", "False", "0", "''", "()", "[]"}

\* json.dumps of one value: a tuple is written as an array
PyToJson(v) ==
    CASE v = "True" -> "true"
      [] v = "False" -> "false"
      [] v = "None" -> "null"
      [] v = "''" -> "\"\""
      [] v = "'decision'" -> "\"decision\""
      [] v = "'preference'" -> "\"preference\""
      [] v = "'commitment'" -> "\"commitment\""
      [] v = "'note'" -> "\"note\""
      [] v = "'user'" -> "\"user\""
      [] v = "'agent'" -> "\"agent\""
      [] v = "()" -> "[]"
      [] v = "(1,)" -> "[1]"
      [] OTHER -> v

\* json.loads of one value: an array is read as a list
JsonToPy(j) ==
    CASE j = "true" -> "True"
      [] j = "false" -> "False"
      [] j = "null" -> "None"
      [] j = "\"\"" -> "''"
      [] j = "\"decision\"" -> "'decision'"
      [] j = "\"preference\"" -> "'preference'"
      [] j = "\"commitment\"" -> "'commitment'"
      [] j = "\"note\"" -> "'note'"
      [] j = "\"user\"" -> "'user'"
      [] j = "\"agent\"" -> "'agent'"
      [] OTHER -> j

\* json.dumps(context, ensure_ascii=False)
JsonDumps(context) == [k \in DOMAIN context |-> PyToJson(context[k])]

\* json.loads(row[2])
JsonLoads(text) == [k \in DOMAIN text |-> JsonToPy(text[k])]

EmptyContext == [k \in {} |-> None]

\* remember called without a context: the parameter's default, None
NoContext == [none |-> "None"]

\* context = context or {}
ContextOrEmpty(context) == IF context = NoContext THEN EmptyContext ELSE context

(***************************************************************************)
(* EnhancedMemory._calculate_importance                                    *)
(***************************************************************************)
\* What the double-precision sum x + inc is off from the decimal sum, in units
\* in the last place (IEEE 754 round to nearest, for the sums the heuristic forms)
RoundErr(x, inc) ==
    CASE x = 550 /\ inc = 150 -> 1
      [] x = 700 /\ inc = 100 -> -1
      [] x = 701 /\ inc = 100 -> -1
      [] x = 800 /\ inc = 150 -> 1
      [] x = 951 /\ inc = 100 -> -1
      [] OTHER -> 0

\* score += inc
FloatAdd(x, inc) == x + inc + RoundErr(x, inc)

MutCalculateImportanceNoClamp(content, context) ==
    LET s0 == 500
        s1 == IF Length(content) > 500 THEN FloatAdd(s0, 100)
              ELSE IF Length(content) > 200 THEN FloatAdd(s0, 50) ELSE s0
        s2 == IF Truthy(Get(context, "importance")) THEN FloatAdd(s1, 200) ELSE s1
        s3 == IF Get(context, "type") \in {"'decision'", "'preference'", "'commitment'"}
              THEN FloatAdd(s2, 150) ELSE s2
        s4 == IF Get(context, "source") = "'user'" THEN FloatAdd(s3, 100) ELSE s3
    IN  s4

CalculateImportance(content, context) ==
    LET s0 == 500
        s1 == IF Length(content) > 500 THEN FloatAdd(s0, 100)
              ELSE IF Length(content) > 200 THEN FloatAdd(s0, 50) ELSE s0
        s2 == IF Truthy(Get(context, "importance")) THEN FloatAdd(s1, 200) ELSE s1
        s3 == IF Get(context, "type") \in {"'decision'", "'preference'", "'commitment'"}
              THEN FloatAdd(s2, 150) ELSE s2
        s4 == IF Get(context, "source") = "'user'" THEN FloatAdd(s3, 100) ELSE s3
    IN  Min2(1000, Max2(0, s4))

(***************************************************************************)
(* EnhancedMemory._create_embedding                                        *)
(***************************************************************************)
\* hash(word) of this process (string hashes are seeded per process)
PyHash(w) ==
    CASE w = "ab" -> 2003
      [] w = "cd" -> 3005
      [] w = "abs" -> 1002
      [] w = "of" -> 4001
      [] w = "a" -> 5006
      [] OTHER -> 6004

RECURSIVE InSlotOrder(_)
\* list(words): a small set of strings is iterated in the order of the table
\* slots, hash & 7
InSlotOrder(S) ==
    IF S = {} THEN <<>>
    ELSE LET w == CHOOSE x \in S : \A y \in S : PyHash(x) % 8 <= PyHash(y) % 8
         IN  <<w>> \o InSlotOrder(S \ {w})

\* The embedding without its trailing zeros (it is padded to 100 entries), in
\* thousandths; None when vector search is disabled.
CreateEmbedding(t, enable_vector_search) ==
    IF ~enable_vector_search THEN NoEmbedding
    ELSE LET words == InSlotOrder(Range(Words(t)))
         IN  [i \in 1..Len(words) |-> PyHash(words[i]) % 1000]

(***************************************************************************)
(* KeywordIndexer                                                          *)
(***************************************************************************)
EmptyIndex == [k \in {} |-> <<>>]

\* An add that appends without looking whether the id is there
MutIndexAddAlwaysAppends(idx, id, content) ==
    LET kws == ExtractKeywords(content)
    IN  [k \in DOMAIN idx \cup kws |->
            IF k \notin kws THEN idx[k]
            ELSE IF k \notin DOMAIN idx THEN <<id>>
            ELSE Append(idx[k], id)]

\* KeywordIndexer.add, before _save_index
IndexAdd(idx, id, content) ==
    LET kws == ExtractKeywords(content)
    IN  [k \in DOMAIN idx \cup kws |->
            IF k \notin kws THEN idx[k]
            ELSE IF k \notin DOMAIN idx THEN <<id>>
            ELSE IF id \in Range(idx[k]) THEN idx[k]
            ELSE Append(idx[k], id)]

\* list.remove(x): the first occurrence goes
RemoveFirst(s, x) ==
    IF x \notin Range(s) THEN s
    ELSE LET at == CHOOSE i \in 1..Len(s) :
                       s[i] = x /\ \A j \in 1..(i - 1) : s[j] # x
         IN  SubSeq(s, 1, at - 1) \o SubSeq(s, at + 1, Len(s))

\* KeywordIndexer.remove, before _save_index
IndexRemove(idx, id) ==
    LET stripped == [k \in DOMAIN idx |-> RemoveFirst(idx[k], id)]
    IN  [k \in {x \in DOMAIN idx : stripped[x] # <<>>} |-> stripped[k]]

RECURSIVE Postings(_, _)
\* The ids met while walking the query keywords in order, each posting list
\* front to back, once per meeting
Postings(idx, keywords) ==
    IF keywords = <<>> THEN <<>>
    ELSE (IF Head(keywords) \in DOMAIN idx THEN idx[Head(keywords)] ELSE <<>>)
         \o Postings(idx, Tail(keywords))

RECURSIVE FirstSeen(_)
\* The keys of a dict filled in the order of s
FirstSeen(s) ==
    IF s = <<>> THEN <<>>
    ELSE LET front == FirstSeen(SubSeq(s, 1, Len(s) - 1))
         IN  IF s[Len(s)] \in Range(front) THEN front
             ELSE Append(front, s[Len(s)])

Count(s, x) == Cardinality({i \in 1..Len(s) : s[i] = x})

\* A search that returns the ids in the order it met them
MutIndexSearchUnsorted(idx, keywords, top_k) ==
    LET met == Postings(idx, keywords)
        ids == FirstSeen(met)
    IN  Take([i \in 1..Len(ids) |-> <<ids[i], Count(met, ids[i])>>], top_k)

\* KeywordIndexer.search; keywords is the query's keyword list in the order
\* list(set(...)) gave it.  Returns the (mem_id, score) pairs.
IndexSearch(idx, keywords, top_k) ==
    LET met == Postings(idx, keywords)
        ids == FirstSeen(met)
        results == [i \in 1..Len(ids) |->
                       [key |-> <<Count(met, ids[i])>>,
                        val |-> <<ids[i], Count(met, ids[i])>>]]
    IN  Take(Vals(SortDesc(results)), top_k)

\* The orders list(set(keywords)) may come in
Orderings(S) == {s \in [1..Cardinality(S) -> S] : Range(s) = S}

(***************************************************************************)
(* VectorStore                                                             *)
(***************************************************************************)
VectorIds(vs) == [i \in 1..Len(vs) |-> vs[i].id]

\* VectorStore.add, before save_vectors
VectorAdd(vs, id, embedding) ==
    IF id \in Range(VectorIds(vs))
    THEN [i \in 1..Len(vs) |->
             IF vs[i].id = id THEN [id |-> id, embedding |-> embedding] ELSE vs[i]]
    ELSE Append(vs, [id |-> id, embedding |-> embedding])

\* VectorStore.delete, before save_vectors
VectorDelete(vs, id) == SelectSeq(vs, LAMBDA e : e.id # id)

RECURSIVE Dot(_, _)
Dot(a, b) ==
    IF a = <<>> \/ b = <<>> THEN 0
    ELSE Head(a) * Head(b) + Dot(Tail(a), Tail(b))

\* _cosine_similarity(q, a) > _cosine_similarity(q, b), compared on the squares
\* (no entry is negative); a zero norm gives similarity 0.0
MoreSimilar(q, a, b) ==
    LET sa == IF Dot(q, q) = 0 \/ Dot(a, a) = 0 THEN 0 ELSE Dot(q, a) * Dot(q, a)
        sb == IF Dot(q, q) = 0 \/ Dot(b, b) = 0 THEN 0 ELSE Dot(q, b) * Dot(q, b)
        na == IF Dot(a, a) = 0 THEN 1 ELSE Dot(a, a)
        nb == IF Dot(b, b) = 0 THEN 1 ELSE Dot(b, b)
    IN  sa * nb > sb * na

\* VectorStore._tfidf_search: the first top_k stored ids, each with score 1.0
TfidfSearch(vs, top_k, exclude_ids) ==
    LET available == SelectSeq(VectorIds(vs), LAMBDA id : id \notin exclude_ids)
    IN  Take(available, top_k)

\* VectorStore.search; returns the ids of the (mem_id, similarity) pairs
VectorSearch(vs, query_embedding, top_k, exclude_ids, numpy_found, sklearn_found) ==
    IF ~numpy_found \/ sklearn_found
    THEN TfidfSearch(vs, top_k, exclude_ids)
    ELSE LET kept == SelectSeq(vs, LAMBDA e : e.id \notin exclude_ids)
             above(i) == Cardinality({j \in 1..Len(kept) :
                             MoreSimilar(query_embedding, kept[j].embedding,
                                         kept[i].embedding)})
             results == [i \in 1..Len(kept) |->
                            [key |-> <<0 - above(i)>>, val |-> kept[i].id]]
         IN  Take(Vals(SortDesc(results)), top_k)

(***************************************************************************)
(* EnhancedMemory: the state the calls work on, as one record              *)
(***************************************************************************)
Engine ==
    [db |-> db, index |-> index, indexFile |-> indexFile, vectors |-> vectors,
     vectorsFile |-> vectorsFile, cache |-> cache, tasks |-> tasks,
     now |-> now, issued |-> issued]

Ids(rows) == {rows[i].id : i \in 1..Len(rows)}

\* _generate_id: "mem_" + uuid4().hex[:16] + "_" + milliseconds
GenerateId(uuid, ms) == <<uuid, ms>>

\* A table without the primary key
MutPrimaryKeyNotEnforced(rows, id) == FALSE

\* id TEXT PRIMARY KEY: the INSERT raises when the id is already stored
PrimaryKeyTaken(rows, id) == id \in Ids(rows)

\* A layer that is global whenever the key is given
MutLayerOfKeyPresent(context) ==
    IF "global_level" \in DOMAIN context THEN "global" ELSE "daily"

\* "global" if context.get("global_level") else "daily"
LayerOf(context) == IF Truthy(Get(context, "global_level")) THEN "global" ELSE "daily"

\* A cache that never lets a key go
MutCachePutKeepsAll(keys, id, cache_max_size) ==
    IF id \in Range(keys) THEN keys ELSE Append(keys, id)

\* self._cache[memory_id] = {...}, then the oldest key goes when the cache is
\* over its size
CachePut(keys, id, cache_max_size) ==
    LET put == IF id \in Range(keys) THEN keys ELSE Append(keys, id)
    IN  IF Len(put) > cache_max_size THEN Tail(put) ELSE put

\* The engine when the INSERT has raised, as if the index were written first
MutAfterInsertRaisedIndexed(e, timestamp, idx) ==
    [e EXCEPT !.now = timestamp, !.index = idx]

\* The engine when the INSERT has raised: nothing but the clock has moved
AfterInsertRaised(e, timestamp, idx) == [e EXCEPT !.now = timestamp]

\* EnhancedMemory.remember on engine state e with the uuid4 value drawn, the
\* clock read and the storage fault met; the result carries `returned`, the id
\* or None when the INSERT raised.  A failed save of an index file is caught
\* and printed by save_vectors/_save_index, and the call goes on.
DoRememberFaulty(e, content, context, uuid, ms, fault, c) ==
    LET memory_id == GenerateId(uuid, ms)
        timestamp == e.now + 1
        layer == LayerOf(context)
        keywords == ExtractKeywords(content)
        importance == CalculateImportance(content, context)
        embedding == CreateEmbedding(content, c.enable_vector_search)
        row == [id |-> memory_id, content |-> content,
                context |-> JsonDumps(context), timestamp |-> timestamp,
                layer |-> layer, keywords |-> keywords,
                importance |-> importance, access_count |-> 0,
                last_access |-> Never]
        idx == IndexAdd(e.index, memory_id, content)
        vs == VectorAdd(e.vectors, memory_id, embedding)
    IN  IF PrimaryKeyTaken(e.db, memory_id) \/ fault = "insert"
        THEN AfterInsertRaised(e, timestamp, idx) @@ [returned |-> NoId]
        ELSE [db |-> Append(e.db, row),
              index |-> idx,
              indexFile |-> SaveOutcome(e.indexFile, idx, fault, "index_file"),
              vectors |-> IF embedding # NoEmbedding THEN vs ELSE e.vectors,
              vectorsFile |-> IF embedding # NoEmbedding
                              THEN SaveOutcome(e.vectorsFile, vs, fault, "vectors_file")
                              ELSE e.vectorsFile,
              cache |-> CachePut(e.cache, memory_id, c.cache_max_size),
              tasks |-> IF c.enable_compression THEN e.tasks + 1 ELSE e.tasks,
              now |-> timestamp,
              issued |-> Append(e.issued, memory_id),
              returned |-> memory_id]

\* EnhancedMemory.remember when the storage works
DoRemember(e, content, context, uuid, ms, c) ==
    DoRememberFaulty(e, content, context, uuid, ms, "none", c)

\* ORDER BY importance DESC, timestamp DESC over the rows of the layer asked for
EligibleRows(rows, layer) ==
    LET kept == IF layer # None THEN SelectSeq(rows, LAMBDA r : r.layer = layer)
                ELSE rows
    IN  Vals(SortDesc([i \in 1..Len(kept) |->
            [key |-> <<kept[i].importance, kept[i].timestamp>>, val |-> kept[i]]]))

\* keyword_match * 0.6 + content_match * 0.4 in thousandths, for queries of up
\* to three keywords; a last digit of 9 is the double just below the decimal
\* value (one or two thirds, times 0.6)
CalculateRelevance(query, content, keywords) ==
    LET query_words == ExtractKeywords(query)
        n == Max2(Cardinality(query_words), 1)
        k == Cardinality(query_words \cap keywords)
        content_match == IF Contains(query, content) THEN 400 ELSE 0
        keyword_match == (600 * k) \div n
        err == IF n = 3 /\ k \in {1, 2} /\ content_match = 0 THEN 1 ELSE 0
    IN  keyword_match + content_match - err

\* Candidate ids that take the vector store's results whatever use_hybrid is
MutCandidateIdsAlwaysUnion(e, query, top_k, use_hybrid, order, c) ==
    LET keyword_matches == IndexSearch(e.index, order, top_k * 2)
        keyword_results == {keyword_matches[i][1] : i \in 1..Len(keyword_matches)}
        embedding == CreateEmbedding(query, c.enable_vector_search)
        vector_results ==
            IF embedding # NoEmbedding
            THEN Range(VectorSearch(e.vectors, embedding, top_k * 2, {},
                                    c.VECTOR_AVAILABLE, c.TFIDF_AVAILABLE))
            ELSE {}
    IN  vector_results \cup keyword_results

\* The candidate ids of recall
CandidateIds(e, query, top_k, use_hybrid, order, c) ==
    LET keyword_matches == IndexSearch(e.index, order, top_k * 2)
        keyword_results == {keyword_matches[i][1] : i \in 1..Len(keyword_matches)}
        embedding == CreateEmbedding(query, c.enable_vector_search)
        vector_results ==
            IF embedding # NoEmbedding
            THEN Range(VectorSearch(e.vectors, embedding, top_k * 2, {},
                                    c.VECTOR_AVAILABLE, c.TFIDF_AVAILABLE))
            ELSE {}
    IN  IF use_hybrid /\ c.enable_vector_search
        THEN vector_results \cup keyword_results
        ELSE keyword_results

\* recall without results.sort
MutScoredResultsUnsorted(e, query, layer, top_k, use_hybrid, order, c) ==
    LET rows == EligibleRows(e.db, layer)
        candidate_ids == CandidateIds(e, query, top_k, use_hybrid, order, c)
    IN  SelectSeq(rows, LAMBDA r :
                    ~(candidate_ids # {} /\ r.id \notin candidate_ids))

\* recall passing every row over when there are no candidates
MutScoredResultsNoFallback(e, query, layer, top_k, use_hybrid, order, c) ==
    LET rows == EligibleRows(e.db, layer)
        candidate_ids == CandidateIds(e, query, top_k, use_hybrid, order, c)
        kept == SelectSeq(rows, LAMBDA r : r.id \in candidate_ids)
    IN  Vals(SortDesc([i \in 1..Len(kept) |->
            [key |-> <<CalculateRelevance(query, kept[i].content, kept[i].keywords)>>,
             val |-> kept[i]]]))

\* The (memory, score) list of recall after its sort
ScoredResults(e, query, layer, top_k, use_hybrid, order, c) ==
    LET rows == EligibleRows(e.db, layer)
        candidate_ids == CandidateIds(e, query, top_k, use_hybrid, order, c)
        kept == SelectSeq(rows, LAMBDA r :
                    ~(candidate_ids # {} /\ r.id \notin candidate_ids))
    IN  Vals(SortDesc([i \in 1..Len(kept) |->
            [key |-> <<CalculateRelevance(query, kept[i].content, kept[i].keywords)>>,
             val |-> kept[i]]]))

\* What recall returns: results[:top_k]
RecallResult(e, query, layer, top_k, use_hybrid, order, c) ==
    Take(ScoredResults(e, query, layer, top_k, use_hybrid, order, c), top_k)

\* _update_access writing its stamp to the timestamp column as well
MutUpdateAccessStampsCreation(rows, ids, stamp) ==
    [i \in 1..Len(rows) |->
        IF rows[i].id \in ids
        THEN [rows[i] EXCEPT !.access_count = @ + 1, !.last_access = stamp,
                             !.timestamp = stamp]
        ELSE rows[i]]

\* _update_access touching every stored row
MutUpdateAccessEveryRow(rows, ids, stamp) ==
    [i \in 1..Len(rows) |->
        [rows[i] EXCEPT !.access_count = @ + 1, !.last_access = stamp]]

\* _update_access called once per recall instead of once per returned memory
MutUpdateAccessOneOnly(rows, ids, stamp) ==
    [i \in 1..Len(rows) |->
        IF rows[i].id \in ids /\ \A j \in 1..(i - 1) : rows[j].id \notin ids
        THEN [rows[i] EXCEPT !.access_count = @ + 1, !.last_access = stamp]
        ELSE rows[i]]

\* _update_access for every returned memory
UpdateAccess(rows, ids, stamp) ==
    [i \in 1..Len(rows) |->
        IF rows[i].id \in ids
        THEN [rows[i] EXCEPT !.access_count = @ + 1, !.last_access = stamp]
        ELSE rows[i]]

\* ToDelete sparing one record more than the capacity
MutToDeleteSparesOne(memories, capacity) ==
    IF Len(memories) > capacity
    THEN Drop(Vals(SortDesc([i \in 1..Len(memories) |->
                 [key |-> <<memories[i].importance, memories[i].access_count>>,
                  val |-> memories[i]]])), capacity + 1)
    ELSE <<>>

\* ToDelete cutting the newest-first list without ranking it
MutToDeleteUnranked(memories, capacity) ==
    IF Len(memories) > capacity THEN Drop(memories, capacity) ELSE <<>>

\* ToDelete giving up after the lowest-ranked record
MutToDeleteOneAtATime(memories, capacity) ==
    IF Len(memories) > capacity
    THEN Drop(Vals(SortDesc([i \in 1..Len(memories) |->
                 [key |-> <<memories[i].importance, memories[i].access_count>>,
                  val |-> memories[i]]])), Len(memories) - 1)
    ELSE <<>>

\* The part of a layer's memories compress marks for deletion
ToDelete(memories, capacity) ==
    IF Len(memories) > capacity
    THEN Drop(Vals(SortDesc([i \in 1..Len(memories) |->
                 [key |-> <<memories[i].importance, memories[i].access_count>>,
                  val |-> memories[i]]])), capacity)
    ELSE <<>>

\* deleted_ids of compress
DeletedIds(rows, c) ==
    LET all_memories == Vals(SortDesc([i \in 1..Len(rows) |->
                            [key |-> <<rows[i].timestamp>>, val |-> rows[i]]]))
        daily_memories == SelectSeq(all_memories, LAMBDA m : m.layer = "daily")
        global_memories == SelectSeq(all_memories, LAMBDA m : m.layer = "global")
        gone == ToDelete(daily_memories, c.max_daily_memories)
                \o ToDelete(global_memories, c.global_memories_limit)
    IN  [i \in 1..Len(gone) |-> gone[i].id]

RECURSIVE IndexRemoveAll(_, _)
IndexRemoveAll(idx, ids) ==
    IF ids = <<>> THEN idx ELSE IndexRemoveAll(IndexRemove(idx, Head(ids)), Tail(ids))

RECURSIVE VectorDeleteAll(_, _)
VectorDeleteAll(vs, ids) ==
    IF ids = <<>> THEN vs ELSE VectorDeleteAll(VectorDelete(vs, Head(ids)), Tail(ids))

\* EnhancedMemory.compress on engine state e
DoCompress(e, c) ==
    CHOOSE after \in
        {IF deleted_ids = <<>> THEN e
         ELSE [e EXCEPT
                 !.db = SelectSeq(e.db, LAMBDA r : r.id \notin Range(deleted_ids)),
                 !.index = IndexRemoveAll(e.index, deleted_ids),
                 !.indexFile = File(IndexRemoveAll(e.index, deleted_ids)),
                 !.vectors = VectorDeleteAll(e.vectors, deleted_ids),
                 !.vectorsFile = File(VectorDeleteAll(e.vectors, deleted_ids))]
         : deleted_ids \in {DeletedIds(e.db, c)}} : TRUE

(***************************************************************************)
(* The calls, one action each.  Every call runs from its first statement   *)
(* to its return without suspending: none of them awaits anything that     *)
(* yields to the event loop.                                               *)
(***************************************************************************)
SetEngine(r) ==
    /\ db' = r.db
    /\ index' = r.index
    /\ indexFile' = r.indexFile
    /\ vectors' = r.vectors
    /\ vectorsFile' = r.vectorsFile
    /\ cache' = r.cache
    /\ tasks' = r.tasks
    /\ now' = r.now
    /\ issued' = r.issued

\* await memory.remember(content, context) meeting a storage fault
RememberFaulty(content, context, uuid, fault, budget) ==
    /\ now < budget
    /\ \E r \in {DoRememberFaulty(Engine, content, ContextOrEmpty(context), uuid,
                                   clock, fault, cfg)} :
           /\ SetEngine(r)
           /\ ret' = [op |-> "remember", content |-> content,
                      context |-> context, id |-> r.returned, fault |-> fault,
                      memory_id |-> GenerateId(uuid, clock),
                      raised |-> (r.returned = NoId)]
    /\ rt' = <<0, 0>>
    /\ UNCHANGED inflight
    /\ UNCHANGED <<exported, clock, cfg, sop>>

\* await memory.remember(content, context)
Remember(content, context, uuid, budget) ==
    RememberFaulty(content, context, uuid, "none", budget)

\* await memory.recall(query, layer, top_k, use_hybrid)
Recall(query, layer, top_k, use_hybrid, order) ==
    \E result \in {RecallResult(Engine, query, layer, top_k, use_hybrid, order, cfg)} :
        /\ \A i \in 1..Len(result) : result[i].access_count < MaxAccess
        /\ db' = UpdateAccess(db, Ids(result), now)
        /\ ret' = [op |-> "recall", query |-> query, layer |-> layer,
                   top_k |-> top_k, use_hybrid |-> use_hybrid,
                   candidate_ids |-> CandidateIds(Engine, query, top_k,
                                                  use_hybrid, order, cfg),
                   result |-> [i \in 1..Len(result) |-> result[i].id]]
        /\ rt' = <<0, 0>>
        /\ UNCHANGED inflight
        /\ UNCHANGED <<index, indexFile, vectors, vectorsFile, cache, tasks,
                       exported, clock, now, issued, cfg, sop>>

\* A compress that rejects the strategy names its docstring does not list
MutStrategyRaisesUnrecognized(strategy) ==
    strategy \notin {"importance", "similarity", "hybrid"}

\* compress reads `strategy` only to put it in its result
StrategyRaises(strategy) == FALSE

\* await memory.compress(strategy) meeting a storage fault; `after` is the
\* call completed before it, with what it returned when that was a compress
\* too.  The index files are saved once per deleted id.
CompressFaulty(strategy, fault) ==
    \E r \in {IF StrategyRaises(strategy) THEN Engine ELSE DoCompress(Engine, cfg)},
       deleted_ids \in {IF StrategyRaises(strategy) THEN <<>>
                        ELSE DeletedIds(db, cfg)} :
        /\ SetEngine(IF deleted_ids = <<>> THEN r
                     ELSE [r EXCEPT
                             !.indexFile = SaveOutcome(indexFile, r.index, fault,
                                                       "index_file"),
                             !.vectorsFile = SaveOutcome(vectorsFile, r.vectors,
                                                         fault, "vectors_file")])
        /\ ret' = [op |-> "compress", args |-> <<strategy>>,
                   strategy |-> strategy,
                   after |-> IF ret.op = "compress"
                             THEN [op |-> ret.op,
                                   deleted_count |-> ret.deleted_count,
                                   remaining_count |-> ret.remaining_count]
                             ELSE [op |-> ret.op],
                   deleted |-> deleted_ids,
                   deleted_count |-> Len(deleted_ids),
                   remaining_count |-> Len(r.db),
                   fault |-> fault, raised |-> StrategyRaises(strategy)]
        /\ rt' = <<0, 0>>
        /\ UNCHANGED inflight
        /\ UNCHANGED <<exported, clock, cfg, sop>>

\* await memory.compress(strategy)
Compress(strategy) == CompressFaulty(strategy, "none")

\* A check that always finds compression due
MutCompressionDueAlways(count, c) == TRUE

\* A check that waits until the count has passed the threshold
MutCompressionDueAbove(count, c) == count > c.compression_threshold

\* if count >= self.compression_threshold
CompressionDue(count, c) == count >= c.compression_threshold

\* One task created by remember runs: _check_compression
CheckCompression ==
    /\ tasks > 0
    /\ \E due \in {CompressionDue(Len(db), cfg)} :
       \E r \in {IF due THEN DoCompress(Engine, cfg) ELSE Engine} :
           /\ SetEngine([r EXCEPT !.tasks = tasks - 1])
           /\ ret' = [op |-> "_check_compression", compressed |-> due]
    /\ UNCHANGED <<exported, clock, rt, inflight, cfg, sop>>

\* A KeywordIndexer that starts empty whatever its file holds
MutLoadIndexIgnoresFile(file) == EmptyIndex

\* KeywordIndexer(storage_path): an empty index, then _load_index
LoadIndex(file) == IF Readable(file) THEN file.data ELSE EmptyIndex

\* VectorStore(storage_path): no vectors, then _load_vectors
LoadVectors(file) == IF Readable(file) THEN file.data ELSE <<>>

RECURSIVE Sum(_)
Sum(s) == IF s = <<>> THEN 0 ELSE Head(s) + Sum(Tail(s))

\* await memory.get_stats(): four SELECTs, nothing written
GetStats ==
    /\ ret' = [op |-> "get_stats",
               total_memories |-> Len(db),
               layer_distribution |->
                   [layer \in {db[i].layer : i \in 1..Len(db)} |->
                       Len(SelectSeq(db, LAMBDA r : r.layer = layer))],
               total_access_count |->
                   Sum([i \in 1..Len(db) |-> db[i].access_count]),
               importance_distribution |->
                   [high |-> Len(SelectSeq(db, LAMBDA r : r.importance >= 800)),
                    medium |-> Len(SelectSeq(db, LAMBDA r :
                                  r.importance >= 500 /\ r.importance < 800)),
                    low |-> Len(SelectSeq(db, LAMBDA r : r.importance < 500))]]
    /\ rt' = <<0, 0>>
    /\ UNCHANGED inflight
    /\ UNCHANGED <<db, index, indexFile, vectors, vectorsFile, cache, tasks,
                   exported, clock, now, issued, cfg, sop>>

\* memory.keyword_indexer.add(memory_id, content)
IndexerAdd(memory_id, content) ==
    /\ index' = IndexAdd(index, memory_id, content)
    /\ indexFile' = File(index')
    /\ ret' = [op |-> "add", memory_id |-> memory_id, content |-> content]
    /\ rt' = <<0, 0>>
    /\ UNCHANGED <<db, vectors, vectorsFile, cache, tasks, exported, clock, now,
                   issued, inflight, cfg, sop>>

\* memory.keyword_indexer.remove(memory_id)
IndexerRemove(memory_id) ==
    /\ index' = IndexRemove(index, memory_id)
    /\ indexFile' = File(index')
    /\ ret' = [op |-> "remove", memory_id |-> memory_id]
    /\ rt' = <<0, 0>>
    /\ UNCHANGED <<db, vectors, vectorsFile, cache, tasks, exported, clock, now,
                   issued, inflight, cfg, sop>>

\* memory.keyword_indexer.search(query, top_k); order is the order in which
\* list(set(keywords)) gives the query's terms
IndexerSearch(query, top_k, order) ==
    /\ ret' = [op |-> "keyword_search", query |-> query, top_k |-> top_k,
               order |-> order, result |-> IndexSearch(index, order, top_k)]
    /\ rt' = <<0, 0>>
    /\ UNCHANGED <<db, index, indexFile, vectors, vectorsFile, cache, tasks,
                   exported, clock, now, issued, inflight, cfg, sop>>

\* memory.vector_store.search(query_embedding, top_k, exclude_ids) with the
\* embedding of a text as query vector
Search(query, top_k, exclude_ids) ==
    \E query_embedding \in {CreateEmbedding(query, TRUE)} :
        /\ ret' = [op |-> "search", query_embedding |-> query_embedding,
                   top_k |-> top_k, exclude_ids |-> exclude_ids,
                   result |-> VectorSearch(vectors, query_embedding, top_k,
                                           exclude_ids, cfg.VECTOR_AVAILABLE,
                                           cfg.TFIDF_AVAILABLE)]
        /\ rt' = <<0, 0>>
        /\ UNCHANGED inflight
        /\ UNCHANGED <<db, index, indexFile, vectors, vectorsFile, cache,
                       tasks, exported, clock, now, issued, cfg, sop>>

\* A load that lets what open and json.load raise reach the constructor
MutLoadRaisesUncaught(file) == file.exists /\ ~Readable(file)

\* _load_index and _load_vectors catch every Exception of the read
LoadRaises(file) == FALSE

\* EnhancedMemory(storage_path, config) on a directory that a process has
\* used before: memories.db is kept, both indices are loaded from their
\* files, the cache is empty and no task is pending
Construct ==
    IF LoadRaises(indexFile) \/ LoadRaises(vectorsFile)
    THEN /\ ret' = [op |-> "construct", raised |-> TRUE]
         /\ rt' = <<0, 0>>
         /\ UNCHANGED inflight
         /\ UNCHANGED <<db, index, indexFile, vectors, vectorsFile, cache,
                        tasks, exported, clock, now, issued, cfg, sop>>
    ELSE /\ index' = LoadIndex(indexFile)
         /\ vectors' = LoadVectors(vectorsFile)
         /\ cache' = <<>>
         /\ tasks' = 0
         /\ ret' = [op |-> "construct", raised |-> FALSE]
         /\ rt' = <<0, 0>>
         /\ UNCHANGED inflight
         /\ UNCHANGED <<db, indexFile, vectorsFile, exported, clock, now,
                        issued, cfg, sop>>

\* Between two processes keyword_index.json is removed or overwritten with
\* bytes that are no JSON object
DamageIndexFile(file) ==
    /\ indexFile' = file
    /\ ret' = [op |-> "damage"]
    /\ rt' = <<0, 0>>
    /\ UNCHANGED inflight
    /\ UNCHANGED <<db, index, vectors, vectorsFile, cache, tasks, exported,
                   clock, now, issued, cfg, sop>>

\* The same for vectors.json
DamageVectorsFile(file) ==
    /\ vectorsFile' = file
    /\ ret' = [op |-> "damage"]
    /\ rt' = <<0, 0>>
    /\ UNCHANGED inflight
    /\ UNCHANGED <<db, index, indexFile, vectors, cache, tasks, exported,
                   clock, now, issued, cfg, sop>>

\* A clear that deletes every row whatever layer it is given
MutClearRowsIgnoresLayer(rows, layer) == <<>>

\* The rows the DELETE of clear leaves: `if layer:` takes the filtered DELETE
\* for a non-empty name and the unfiltered one for None and for ""
ClearRows(rows, layer) ==
    IF layer \notin {None, ""} THEN SelectSeq(rows, LAMBDA r : r.layer # layer)
    ELSE <<>>

\* await memory.clear(layer)
Clear(layer) ==
    \E left \in {ClearRows(db, layer)} :
        /\ db' = left
        /\ index' = LoadIndex(indexFile)
        /\ vectors' = LoadVectors(vectorsFile)
        /\ cache' = <<>>
        /\ ret' = [op |-> "clear", layer |-> layer,
                   deleted_count |-> Len(db) - Len(left)]
        /\ rt' = IF layer = None /\ rt[1] = 1 THEN <<2, rt[2]>> ELSE <<0, 0>>
        /\ UNCHANGED inflight
        /\ UNCHANGED <<indexFile, vectorsFile, tasks, exported, clock, now,
                       issued, cfg, sop>>

\* An export that selects the daily rows only
MutExportRowsDailyOnly(rows, layer) == SelectSeq(rows, LAMBDA r : r.layer = "daily")

\* The rows export selects
ExportRows(rows, layer) ==
    IF layer # None THEN SelectSeq(rows, LAMBDA r : r.layer = layer) ELSE rows

(***************************************************************************)
(* recall, compress and clear as a second thread or process on the same   *)
(* storage directory meets them: one step per storage operation (a         *)
(* connection opened, used, committed and closed; an index file read or    *)
(* written), with the call's locals kept in `inflight` between the steps.  *)
(***************************************************************************)
\* A row built for every candidate id, stored or not
MutFetchedWithMisses(rows, candidate_ids) ==
    LET stub(id) == [id |-> id, content |-> Text(<<>>, 0),
                     context |-> JsonDumps(EmptyContext), timestamp |-> 0,
                     layer |-> "daily", keywords |-> {}, importance |-> 0,
                     access_count |-> 0, last_access |-> Never]
        missing == {id \in candidate_ids : id \notin Ids(rows)}
        order == CHOOSE q \in [1..Cardinality(missing) -> missing] : Range(q) = missing
    IN  SelectSeq(rows, LAMBDA r : r.id \in candidate_ids)
        \o [i \in 1..Cardinality(missing) |-> stub(order[i])]

\* The loop of recall over the rows it read: a row whose id is not among the
\* candidates is passed over unless there are no candidates; a candidate id
\* without a row is never looked up
Fetched(rows, candidate_ids) ==
    SelectSeq(rows, LAMBDA r : ~(candidate_ids # {} /\ r.id \notin candidate_ids))

\* recall, lines 479-501: the SELECT of the layer's rows
RecallSelect(query, layer, top_k, use_hybrid) ==
    /\ inflight.recall = Idle
    /\ inflight' = [inflight EXCEPT !.recall =
                       [pc |-> "selected", query |-> query, layer |-> layer,
                        top_k |-> top_k, use_hybrid |-> use_hybrid,
                        rows |-> EligibleRows(db, layer)]]
    /\ UNCHANGED <<db, index, indexFile, vectors, vectorsFile, cache, tasks,
                   exported, clock, now, issued, ret, rt, cfg, sop>>

\* recall, lines 503-561: the searches of the two indices as they are now,
\* the loop over the rows read, the sort and the cut
RecallSearch(order) ==
    /\ inflight.recall.pc = "selected"
    /\ \E call \in {inflight.recall} :
       \E candidate_ids \in {CandidateIds(Engine, call.query, call.top_k,
                                          call.use_hybrid, order, cfg)} :
       \E kept \in {Fetched(call.rows, candidate_ids)} :
       \E results \in {Vals(SortDesc([i \in 1..Len(kept) |->
                          [key |-> <<CalculateRelevance(call.query, kept[i].content,
                                                        kept[i].keywords)>>,
                           val |-> kept[i]]]))} :
       \E cut \in {Take(results, call.top_k)} :
           /\ \A i \in 1..Len(cut) : cut[i].access_count < MaxAccess
           /\ inflight' = [inflight EXCEPT !.recall =
                              [pc |-> "updating", query |-> call.query,
                               layer |-> call.layer, top_k |-> call.top_k,
                               use_hybrid |-> call.use_hybrid,
                               read |-> Ids(call.rows),
                               candidate_ids |-> candidate_ids,
                               result |-> [i \in 1..Len(cut) |-> cut[i].id],
                               todo |-> [i \in 1..Len(cut) |-> cut[i].id]]]
    /\ UNCHANGED <<db, index, indexFile, vectors, vectorsFile, cache, tasks,
                   exported, clock, now, issued, ret, rt, cfg, sop>>

\* recall, lines 564-565: one _update_access; an UPDATE that matches no row
\* changes nothing and raises nothing
RecallUpdateAccess ==
    /\ inflight.recall.pc = "updating"
    /\ inflight.recall.todo # <<>>
    /\ db' = UpdateAccess(db, {Head(inflight.recall.todo)}, now)
    /\ inflight' = [inflight EXCEPT !.recall.todo = Tail(@)]
    /\ UNCHANGED <<index, indexFile, vectors, vectorsFile, cache, tasks,
                   exported, clock, now, issued, ret, rt, cfg, sop>>

\* recall, line 567: the return
RecallReturn ==
    /\ inflight.recall.pc = "updating"
    /\ inflight.recall.todo = <<>>
    /\ ret' = [op |-> "recall", query |-> inflight.recall.query,
               layer |-> inflight.recall.layer, top_k |-> inflight.recall.top_k,
               use_hybrid |-> inflight.recall.use_hybrid,
               result |-> inflight.recall.result,
               read |-> inflight.recall.read,
               candidate_ids |-> inflight.recall.candidate_ids,
               raised |-> FALSE]
    /\ inflight' = [inflight EXCEPT !.recall = Idle]
    /\ UNCHANGED <<db, index, indexFile, vectors, vectorsFile, cache, tasks,
                   exported, clock, now, issued, rt, cfg, sop>>

\* compress, lines 613-684: the SELECT, the choice of deleted_ids and the
\* DELETE with its commit
CompressDelete(strategy) ==
    /\ inflight.compress = Idle
    /\ \E deleted_ids \in {DeletedIds(db, cfg)} :
          /\ db' = SelectSeq(db, LAMBDA r : r.id \notin Range(deleted_ids))
          /\ inflight' = [inflight EXCEPT !.compress =
                             [pc |-> "deleted", strategy |-> strategy,
                              deleted |-> deleted_ids, todo |-> deleted_ids]]
    /\ UNCHANGED <<index, indexFile, vectors, vectorsFile, cache, tasks,
                   exported, clock, now, issued, ret, rt, cfg, sop>>

\* compress, lines 686-688: keyword_indexer.remove and vector_store.delete of
\* one deleted id, each followed by the save of its file
CompressClean ==
    /\ inflight.compress.pc = "deleted"
    /\ inflight.compress.todo # <<>>
    /\ index' = IndexRemove(index, Head(inflight.compress.todo))
    /\ indexFile' = File(index')
    /\ vectors' = VectorDelete(vectors, Head(inflight.compress.todo))
    /\ vectorsFile' = File(vectors')
    /\ inflight' = [inflight EXCEPT !.compress.todo = Tail(@)]
    /\ UNCHANGED <<db, cache, tasks, exported, clock, now, issued, ret, rt,
                   cfg, sop>>

\* compress, lines 690-702: the SELECT COUNT(*) and the return
CompressReturn ==
    /\ inflight.compress.pc = "deleted"
    /\ inflight.compress.todo = <<>>
    /\ ret' = [op |-> "compress", args |-> <<inflight.compress.strategy>>,
               strategy |-> inflight.compress.strategy,
               after |-> [op |-> ret.op],
               deleted |-> inflight.compress.deleted,
               deleted_count |-> Len(inflight.compress.deleted),
               remaining_count |-> Len(db),
               fault |-> "none", raised |-> FALSE]
    /\ inflight' = [inflight EXCEPT !.compress = Idle]
    /\ UNCHANGED <<db, index, indexFile, vectors, vectorsFile, cache, tasks,
                   exported, clock, now, issued, rt, cfg, sop>>

\* clear, lines 769-779: the DELETE with its commit
ClearDelete(layer) ==
    /\ inflight.clear = Idle
    /\ \E left \in {ClearRows(db, layer)} :
          /\ db' = left
          /\ inflight' = [inflight EXCEPT !.clear =
                             [pc |-> "deleted", layer |-> layer,
                              deleted |-> Ids(db) \ Ids(left),
                              deleted_count |-> Len(db) - Len(left)]]
    /\ UNCHANGED <<index, indexFile, vectors, vectorsFile, cache, tasks,
                   exported, clock, now, issued, ret, rt, cfg, sop>>

\* clear, lines 781-788: the two indices built again from their files, the
\* cache emptied and the return
ClearReturn ==
    /\ inflight.clear.pc = "deleted"
    /\ index' = LoadIndex(indexFile)
    /\ vectors' = LoadVectors(vectorsFile)
    /\ cache' = <<>>
    /\ ret' = [op |-> "clear", layer |-> inflight.clear.layer,
               deleted_count |-> inflight.clear.deleted_count]
    /\ inflight' = [inflight EXCEPT !.clear = Idle]
    /\ UNCHANGED <<db, indexFile, vectorsFile, tasks, exported, clock, now,
                   issued, rt, cfg, sop>>

\* await memory.export(file_path, layer)
Export(layer) ==
    /\ exported' = File([layer |-> IF layer # None THEN layer ELSE "all",
                          count |-> Len(ExportRows(db, layer)),
                          memories |-> ExportRows(db, layer)])
    /\ ret' = [op |-> "export", layer |-> layer]
    /\ rt' = IF layer = None THEN <<1, Len(db)>> ELSE <<0, 0>>
    /\ UNCHANGED inflight
    /\ UNCHANGED <<db, index, indexFile, vectors, vectorsFile, cache, tasks,
                   clock, now, issued, cfg, sop>>

\* A parse that takes every entry as well-formed
MutParseEntryNeverRaises(entry) ==
    [raises |-> FALSE,
     content |-> IF "content" \in DOMAIN entry THEN entry.content ELSE Text(<<>>, 0),
     context |-> EmptyContext]

\* mem_data.get("content", ""), json.loads(mem_data.get("context", "{}")) and
\* the first statements of remember, up to the INSERT, on one entry of the
\* file.  An exported row has its columns; any other entry names its shape:
\* not a JSON object, a context that is no JSON text, a context that is JSON
\* but no object, a content that is no string, or a missing key.
ParseEntry(entry) ==
    IF "shape" \notin DOMAIN entry
    THEN [raises |-> FALSE, content |-> entry.content,
          context |-> JsonLoads(entry.context)]
    ELSE IF entry.shape = "no content"
    THEN [raises |-> FALSE, content |-> Text(<<>>, 0),
          context |-> JsonLoads(entry.context)]
    ELSE IF entry.shape = "no context"
    THEN [raises |-> FALSE, content |-> entry.content, context |-> EmptyContext]
    ELSE [raises |-> TRUE]

RECURSIVE ImportAll(_, _, _, _, _)
\* The loop of import_memories over the file's memories: e carries the engine
\* state and `imported`; an entry that raises is passed over
ImportAll(e, memories, uuids, ms, c) ==
    IF memories = <<>> THEN e
    ELSE LET parsed == ParseEntry(Head(memories))
         IN  IF parsed.raises
             THEN ImportAll(e, Tail(memories), uuids, ms, c)
             ELSE LET r == DoRemember(e, parsed.content, parsed.context,
                                      Head(uuids), ms, c)
                      n == IF r.returned # NoId THEN e.imported + 1
                           ELSE e.imported
                  IN  ImportAll([x \in DOMAIN e |->
                                    IF x = "imported" THEN n ELSE r[x]],
                                Tail(memories), Tail(uuids), ms, c)

\* A file written by hand is put where import reads
WriteFile(entries) ==
    /\ exported' = File([layer |-> "all", count |-> Len(entries),
                         memories |-> entries])
    /\ ret' = [op |-> "write file"]
    /\ rt' = <<0, 0>>
    /\ UNCHANGED inflight
    /\ UNCHANGED <<db, index, indexFile, vectors, vectorsFile, cache, tasks,
                   clock, now, issued, cfg, sop>>

\* await memory.import_memories(file_path)
Import(uuids, budget) ==
    /\ exported.exists
    /\ now + Len(exported.data.memories) <= budget
    /\ \E r \in {ImportAll(Engine @@ [imported |-> 0], exported.data.memories,
                            uuids, clock, cfg)} :
           /\ SetEngine(r)
           /\ ret' = [op |-> "import", imported |-> r.imported]
    /\ rt' = IF rt[1] = 2 THEN <<3, rt[2]>> ELSE <<0, 0>>
    /\ UNCHANGED inflight
    /\ UNCHANGED <<exported, clock, cfg, sop>>

\* A millisecond passes
Tick ==
    /\ clock < MaxClock
    /\ clock' = clock + 1
    /\ UNCHANGED <<db, index, indexFile, vectors, vectorsFile, cache, tasks,
                   exported, now, issued, ret, rt, inflight, cfg, sop>>

(***************************************************************************)
(* SOPEngine (sop_engine.py).  execute_sop is a coroutine: it runs without *)
(* suspending except at `await self._execute_step(...)`, and there only    *)
(* when the step's callback itself awaits something that is not ready.     *)
(* Several execute_sop calls on one engine can therefore be in progress,   *)
(* each with its own steps_executed and errors, all with the engine's      *)
(* _step_outputs and execution_history.                                    *)
(***************************************************************************)
SOPStep(step_id, assigned_role, dependencies) ==
    [step_id |-> step_id, assigned_role |-> assigned_role,
     dependencies |-> dependencies]

\* SOPTemplate.TEMPLATES
TEMPLATES ==
    [default |->
        <<SOPStep("strategy_design", "strategy_design", <<>>),
          SOPStep("plan_evaluation", "plan_evaluation", <<"strategy_design">>),
          SOPStep("risk_assessment", "risk_assessment", <<"plan_evaluation">>)>>,
     quick |->
        <<SOPStep("strategy_design", "strategy_design", <<>>),
          SOPStep("risk_assessment", "risk_assessment", <<"strategy_design">>)>>,
     detailed |->
        <<SOPStep("analysis", "strategy_design", <<>>),
          SOPStep("strategy_design", "strategy_design", <<"analysis">>),
          SOPStep("plan_evaluation", "plan_evaluation", <<"strategy_design">>),
          SOPStep("risk_assessment", "risk_assessment", <<"plan_evaluation">>),
          SOPStep("optimization", "strategy_design", <<"risk_assessment">>)>>]

\* SOPTemplate.get_template: TEMPLATES.get(name, TEMPLATES["default"])
GetTemplate(template_name) ==
    IF template_name \in DOMAIN TEMPLATES THEN TEMPLATES[template_name]
    ELSE TEMPLATES["default"]

\* The roles of StrategyScientistGroup's three agents; execute_sop looks for
\* the step's role in the team it is given and then in the engine's team
TeamRoles == {"strategy_design", "plan_evaluation", "risk_assessment"}

\* SOPEngine(): no history and no step outputs, no execute_sop call started
NewSOPEngine ==
    [step_outputs |-> {}, execution_history |-> <<>>,
     runs |-> [run \in 1..MaxRuns |-> [pc |-> "idle"]]]

\* A skip that appends no error
MutSkippedWithoutError(r, step) ==
    [r EXCEPT !.steps_executed =
                  Append(@, [step_id |-> step.step_id, status |-> "skipped"]),
              !.i = @ + 1]

\* status "skipped": one error, the step result appended, continue
Skipped(r, step) ==
    [r EXCEPT !.steps_executed =
                  Append(@, [step_id |-> step.step_id, status |-> "skipped"]),
              !.errors = Append(@, step.step_id),
              !.i = @ + 1]

\* except Exception: status "failed", one error, the step result appended
Failed(r, step) ==
    [r EXCEPT !.steps_executed =
                  Append(@, [step_id |-> step.step_id, status |-> "failed"]),
              !.errors = Append(@, step.step_id),
              !.i = @ + 1]

\* status "completed" and the step result appended
Completed(r, step) ==
    [r EXCEPT !.steps_executed =
                  Append(@, [step_id |-> step.step_id, status |-> "completed"]),
              !.i = @ + 1]

\* unmet_deps = [dep for dep in step.dependencies if dep not in self._step_outputs]
UnmetDeps(step, step_outputs) ==
    {dep \in Range(step.dependencies) : dep \notin step_outputs}

\* What _execute_step does for the step: "default" without a callback, else
\* the callback's kind: it raises, or it suspends and then returns or raises
CallbackOf(r, step) ==
    IF step.step_id \in DOMAIN r.step_callbacks
    THEN r.step_callbacks[step.step_id]
    ELSE "default"

RECURSIVE RunLoop(_, _)
\* The for loop of execute_sop from step r.i on, as far as it runs without
\* suspending: to an await that suspends or to the end of the list.  The
\* value is the run's locals and self._step_outputs.
RunLoop(r, step_outputs) ==
    IF r.i > Len(r.steps)
    THEN [run |-> [r EXCEPT !.pc = "loop_done"], step_outputs |-> step_outputs]
    ELSE LET step == r.steps[r.i]
             kind == CallbackOf(r, step)
         IN  IF UnmetDeps(step, step_outputs) # {}
             THEN RunLoop(Skipped(r, step), step_outputs)
             ELSE IF step.assigned_role \notin TeamRoles
             THEN RunLoop(Skipped(r, step), step_outputs)
             ELSE IF kind = "default"
             THEN RunLoop(Completed(r, step),
                          step_outputs \cup {step.step_id})
             ELSE IF kind = "raises"
             THEN RunLoop(Failed(r, step), step_outputs)
             ELSE [run |-> [r EXCEPT !.pc = "awaiting"],
                   step_outputs |-> step_outputs]

\* The entries of steps_executed with status "completed"
CompletedSteps(executed) == SelectSeq(executed, LAMBDA s : s.status = "completed")

\* _generate_final_output and the SOPResult execute_sop builds
SOPResult(r, step_outputs) ==
    [success |-> Len(r.errors) = 0,
     steps_executed |-> r.steps_executed,
     errors |-> r.errors,
     final_output |->
         [success |-> Len(CompletedSteps(r.steps_executed)) = Len(r.steps),
          completed_steps |-> Len(CompletedSteps(r.steps_executed)),
          total_steps |-> Len(r.steps)],
     metadata |->
         [steps_count |-> Len(r.steps),
          completed_steps |-> Len(CompletedSteps(r.steps_executed))]]

\* The engine after a stretch of the run: at the end of the loop the result
\* is built, appended to execution_history and returned
SopAfter(run, e) ==
    IF e.run.pc = "loop_done"
    THEN [sop EXCEPT !.step_outputs = e.step_outputs,
                     !.execution_history =
                         Append(@, SOPResult(e.run, e.step_outputs)),
                     !.runs[run] =
                         [e.run EXCEPT !.pc = "returned"]]
    ELSE [sop EXCEPT !.step_outputs = e.step_outputs, !.runs[run] = e.run]

\* engine.execute_sop(task, template=..., custom_steps=..., step_callbacks=...)
\* up to its first suspension: self._step_outputs = {}, the steps chosen
\* (`if custom_steps:`), then the loop
ExecuteSop(run, template, custom_steps, step_callbacks) ==
    /\ sop.runs[run].pc = "idle"
    /\ \A earlier \in 1..(run - 1) : sop.runs[earlier].pc # "idle"
    /\ sop' = SopAfter(run,
                RunLoop([pc |-> "running",
                         steps |-> IF custom_steps # <<>> THEN custom_steps
                                   ELSE GetTemplate(template),
                         step_callbacks |-> step_callbacks,
                         i |-> 1,
                         steps_executed |-> <<>>,
                         errors |-> <<>>],
                        {}))
    /\ UNCHANGED <<db, index, indexFile, vectors, vectorsFile, cache, tasks,
                   exported, clock, now, issued, ret, rt, inflight, cfg>>

\* The callback a run is suspended in finishes: its return value is stored in
\* self._step_outputs, or what it raises is caught, and the loop goes on
CallbackResumes(run) ==
    /\ sop.runs[run].pc = "awaiting"
    /\ \E r \in {[sop.runs[run] EXCEPT !.pc = "running"]} :
          \E step \in {r.steps[r.i]} :
             sop' = SopAfter(run,
                      IF CallbackOf(r, step) = "sleeps_returns"
                      THEN RunLoop(Completed(r, step),
                                   sop.step_outputs \cup {step.step_id})
                      ELSE RunLoop(Failed(r, step), sop.step_outputs))
    /\ UNCHANGED <<db, index, indexFile, vectors, vectorsFile, cache, tasks,
                   exported, clock, now, issued, ret, rt, inflight, cfg>>

(***************************************************************************)
(* The engine on a new storage directory, and the inputs of the model.     *)
(***************************************************************************)
Config(max_daily, global_limit, threshold) ==
    [max_daily_memories |-> max_daily,
     global_memories_limit |-> global_limit,
     compression_threshold |-> threshold,
     enable_vector_search |-> TRUE,
     enable_compression |-> TRUE,
     cache_max_size |-> 100,
     VECTOR_AVAILABLE |-> TRUE,
     TFIDF_AVAILABLE |-> TRUE]

InitEngine ==
    /\ db = <<>>
    /\ index = EmptyIndex
    /\ indexFile = NoFile
    /\ vectors = <<>>
    /\ vectorsFile = NoFile
    /\ cache = <<>>
    /\ tasks = 0
    /\ exported = NoFile
    /\ clock = 0
    /\ now = 0
    /\ issued = <<>>
    /\ ret = [op |-> "init"]
    /\ rt = <<0, 0>>
    /\ inflight = NoCalls
    /\ sop = NewSOPEngine

TextAb == Text(<<"a", "b">>, 0)

TextCd == Text(<<"c", "d">>, 0)

\* The (content, context) pairs remember is called with
Notes ==
    {[content |-> TextAb, context |-> [global_level |-> "True"]],
     [content |-> TextAb, context |-> EmptyContext],
     [content |-> TextCd, context |-> [type |-> "'decision'"]]}

Queries == {TextAb, TextCd}

Layers == {None, "daily", "global"}

TopKs == {1, 2}

\* uuid4 values that never repeat: the n-th draw of the process is n
FreshUuids(n) == [i \in 1..n |-> now + i]

RememberNote(budget) ==
    \E note \in Notes :
        Remember(note.content, note.context, FreshUuids(1)[1], budget)

(***************************************************************************)
(* SpecCompress: writes, reads that count accesses and compress, with      *)
(* capacities 2 (daily) and 1 (global) and no background compression.      *)
(***************************************************************************)
InitCompress ==
    /\ InitEngine
    /\ cfg = [Config(2, 1, 3) EXCEPT !.enable_compression = FALSE]

NextCompress ==
    \/ RememberNote(MaxRemembers)
    \/ \E query \in Queries :
          \E order \in Orderings(ExtractKeywords(query)) :
              Recall(query, None, 1, TRUE, order)
    \/ Compress("importance")

SpecCompress == InitCompress /\ [][NextCompress]_vars

(***************************************************************************)
(* SpecRoundTrip: writes, clear, export and import, with the background    *)
(* compression checks running between the calls (threshold 3).  An import  *)
(* may take the number of remember calls two beyond MaxRemembers.          *)
(***************************************************************************)
InitRoundTrip ==
    /\ InitEngine
    /\ cfg = Config(2, 1, 3)

NextRoundTrip ==
    \/ RememberNote(MaxRemembers)
    \/ Clear(None)
    \/ Export(None)
    \/ /\ exported.exists
       /\ Import(FreshUuids(Len(exported.data.memories)), MaxRemembers + 2)
    \/ CheckCompression

SpecRoundTrip == InitRoundTrip /\ [][NextRoundTrip]_vars

(***************************************************************************)
(* SpecReuse: the id generator with uuid4 values that may repeat and a     *)
(* clock that may or may not have advanced between two calls; every record *)
(* goes to the global layer (capacity 1), so compress deletes.             *)
(***************************************************************************)
NextReuse ==
    \/ \E uuid \in 1..MaxUuid :
          Remember(TextAb, [global_level |-> "True"], uuid, MaxRemembers)
    \/ Tick
    \/ Clear(None)
    \/ Compress("importance")

SpecReuse == InitCompress /\ [][NextReuse]_vars

(***************************************************************************)
(* SpecImportance: one remember on an empty store, over contents of every  *)
(* length class and contexts with every combination of the keys the        *)
(* heuristic reads.                                                        *)
(***************************************************************************)
\* Contents of 2, 200, 201, 500 and 501 characters
WideContents == {Text(<<"a", "b">>, fill) : fill \in {0, 198, 199, 498, 499}}

Absent == "absent"

\* The dict with the keys that are given a value
ContextOf(importance, type, source) ==
    LET given == [importance |-> importance, type |-> type, source |-> source]
    IN  [k \in {x \in DOMAIN given : given[x] # Absent} |-> given[k]]

WideContexts ==
    {ContextOf(importance, type, source) :
        importance \in {Absent, "True", "False", "None", "0", "1", "''"},
        type \in {Absent, "'decision'", "'preference'", "'commitment'", "'note'"},
        source \in {Absent, "'user'", "'agent'"}}

NextImportance ==
    \E content \in WideContents, context \in WideContexts :
        /\ db = <<>>
        /\ Remember(content, context, FreshUuids(1)[1], MaxRemembers)

SpecImportance == InitCompress /\ [][NextImportance]_vars

(***************************************************************************)
(* SpecAccess: writes and hybrid reads of all layers with top_k 1 and 2.   *)
(***************************************************************************)
NextAccess ==
    \/ RememberNote(MaxRemembers)
    \/ \E query \in Queries, top_k \in TopKs :
          \E order \in Orderings(ExtractKeywords(query)) :
              Recall(query, None, top_k, TRUE, order)


SpecAccess == InitCompress /\ [][NextAccess]_vars

(***************************************************************************)
(* SpecBackground: writes and the compression checks they schedule, on an  *)
(* engine built with enable_compression True or False (threshold 3,        *)
(* capacities 2 and 1).                                                    *)
(***************************************************************************)
InitBackground ==
    /\ InitEngine
    /\ cfg \in {Config(2, 1, 3),
                [Config(2, 1, 3) EXCEPT !.enable_compression = FALSE]}

NextBackground ==
    \/ RememberNote(MaxRemembers)
    \/ CheckCompression

SpecBackground == InitBackground /\ [][NextBackground]_vars

\* The event loop takes a scheduled task and runs it: under NextBackground
\* the steps of CheckCompression, which is enabled exactly when tasks > 0
TaskRuns == tasks > 0 /\ tasks' = tasks - 1

\* The event loop runs every task that asyncio.create_task has scheduled
SpecBackgroundFair == SpecBackground /\ WF_tasks(TaskRuns)

(***************************************************************************)
(* SpecImport: writes, and imports of one hand-written file of up to       *)
(* MaxEntries entries of every shape.                                      *)
(***************************************************************************)
FileEntries ==
    {[content |-> TextAb, context |-> JsonDumps([global_level |-> "True"])],
     [shape |-> "not an object"],
     [shape |-> "context not JSON", content |-> TextAb],
     [shape |-> "context not an object", content |-> TextAb],
     [shape |-> "content not a string", context |-> JsonDumps(EmptyContext)],
     [shape |-> "no content", context |-> JsonDumps([type |-> "'decision'"])],
     [shape |-> "no context", content |-> TextCd]}

Files == UNION {[1..n -> FileEntries] : n \in 1..MaxEntries}

NextImport ==
    \/ RememberNote(MaxRemembers)
    \/ /\ ~exported.exists
       /\ \E entries \in Files : WriteFile(entries)
    \/ /\ exported.exists
       /\ Import(FreshUuids(Len(exported.data.memories)), MaxRemembers + MaxEntries)

SpecImport == InitCompress /\ [][NextImport]_vars

(***************************************************************************)
(* SpecFaults: writes and compressions that meet storage faults.           *)
(* SpecConstruct: writes, index files damaged between processes, and       *)
(* engines constructed again on the same directory.                        *)
(***************************************************************************)
SaveFaults ==
    {"index_file_open", "index_file_write", "vectors_file_open",
     "vectors_file_write"}

NextFaults ==
    \/ \E note \in Notes, fault \in Faults :
          RememberFaulty(note.content, note.context, FreshUuids(1)[1], fault,
                         MaxRemembers)
    \/ \E fault \in SaveFaults \cup {"none"} : CompressFaulty("importance", fault)

SpecFaults == InitCompress /\ [][NextFaults]_vars

NextConstruct ==
    \/ RememberNote(MaxRemembers)
    \/ \E file \in {NoFile, CorruptFile} : DamageIndexFile(file)
    \/ \E file \in {NoFile, CorruptFile} : DamageVectorsFile(file)
    \/ Construct

SpecConstruct == InitCompress /\ [][NextConstruct]_vars

(***************************************************************************)
(* SpecVector: writes and direct searches of the vector store, on the four *)
(* builds: numpy found or not, scikit-learn found or not.                  *)
(***************************************************************************)
TextNone == Text(<<>>, 0)

InitVector ==
    /\ InitEngine
    /\ cfg \in {[Config(2, 1, 3) EXCEPT !.enable_compression = FALSE,
                                        !.VECTOR_AVAILABLE = numpy_found,
                                        !.TFIDF_AVAILABLE = sklearn_found] :
                    numpy_found \in BOOLEAN, sklearn_found \in BOOLEAN}

NextVector ==
    \/ \E content \in {TextAb, TextCd, TextNone} :
          Remember(content, EmptyContext, FreshUuids(1)[1], MaxRemembers)
    \/ \E query \in {TextAb, TextCd, TextNone}, top_k \in TopKs :
          \E exclude_ids \in {{}} \cup {{id} : id \in Ids(db)} :
              Search(query, top_k, exclude_ids)

SpecVector == InitVector /\ [][NextVector]_vars

(***************************************************************************)
(* SpecStrategy: writes and compress under strategy names the docstring    *)
(* lists and names it does not.                                            *)
(***************************************************************************)
Strategies == {"importance", "similarity", "hybrid", "newest", ""}

NextStrategy ==
    \/ RememberNote(MaxRemembers)
    \/ \E strategy \in Strategies : Compress(strategy)

SpecStrategy == InitCompress /\ [][NextStrategy]_vars

(***************************************************************************)
(* SpecFrame: every call that reads or deletes, after writes: recall,      *)
(* compress, get_stats, one export and clear of the daily layer.           *)
(***************************************************************************)
NextFrame ==
    \/ \E note \in {n \in Notes : n.content = TextAb} :
          Remember(note.content, note.context, FreshUuids(1)[1], MaxRemembers)
    \/ \E order \in Orderings(ExtractKeywords(TextAb)) :
          Recall(TextAb, None, 1, TRUE, order)
    \/ Compress("importance")
    \/ GetStats
    \/ /\ ~exported.exists
       /\ Export("global")
    \/ Clear("daily")

SpecFrame == InitCompress /\ [][NextFrame]_vars

(***************************************************************************)
(* SpecInterleave: writes while no call is in progress, then a recall      *)
(* taken step by step with a compress or a clear, taken step by step too,  *)
(* running between its storage operations.                                 *)
(***************************************************************************)
NextInterleave ==
    \/ /\ inflight = NoCalls
       /\ \E note \in {n \in Notes : n.content = TextAb} :
             Remember(note.content, note.context, FreshUuids(1)[1], MaxRemembers)
    \/ RecallSelect(TextAb, None, 1, TRUE)
    \/ \E order \in Orderings(ExtractKeywords(TextAb)) : RecallSearch(order)
    \/ RecallUpdateAccess
    \/ RecallReturn
    \/ /\ inflight.clear = Idle
       /\ CompressDelete("importance")
    \/ CompressClean
    \/ CompressReturn
    \/ /\ inflight.compress = Idle
       /\ ClearDelete("daily")
    \/ ClearReturn

SpecInterleave == InitCompress /\ [][NextInterleave]_vars

(***************************************************************************)
(* SpecCandidates: writes and reads with and without use_hybrid, on        *)
(* engines built with enable_vector_search True or False.                  *)
(***************************************************************************)
InitCandidates ==
    /\ InitEngine
    /\ cfg \in {[Config(2, 1, 3) EXCEPT !.enable_compression = FALSE,
                                        !.enable_vector_search = enabled] :
                    enabled \in BOOLEAN}

NextCandidates ==
    \/ \E note \in {n \in Notes : n.context # EmptyContext} :
          Remember(note.content, note.context, FreshUuids(1)[1], MaxRemembers)
    \/ \E query \in Queries, use_hybrid \in BOOLEAN :
          \E order \in Orderings(ExtractKeywords(query)) :
              Recall(query, None, 1, use_hybrid, order)

SpecCandidates == InitCandidates /\ [][NextCandidates]_vars

(***************************************************************************)
(* SpecLayer: writes without a context and with contexts that give         *)
(* global_level truthy and falsy values, or leave it out.                  *)
(***************************************************************************)
LayerContexts ==
    {NoContext, EmptyContext, [type |-> "'decision'"]}
    \cup {[global_level |-> v] :
             v \in {"True", "False", "None", "0", "1", "''", "'user'", "()", "(1,)"}}

NextLayer ==
    \E context \in LayerContexts :
        Remember(TextAb, context, FreshUuids(1)[1], MaxRemembers - 1)

SpecLayer == InitCompress /\ [][NextLayer]_vars

(***************************************************************************)
(* SpecIndexer: the keyword index driven by itself: add, remove and search *)
(* with ids 1..MaxUuid and texts of one and two terms.                     *)
(***************************************************************************)
TextAbCd == Text(<<"a", "b", " ", "c", "d">>, 0)

IndexerIds == {GenerateId(uuid, 0) : uuid \in 1..MaxUuid}

NextIndexer ==
    \/ \E memory_id \in IndexerIds, content \in {TextAb, TextCd, TextAbCd} :
          IndexerAdd(memory_id, content)
    \/ \E memory_id \in IndexerIds : IndexerRemove(memory_id)
    \/ \E query \in {TextAb, TextAbCd, TextNone}, top_k \in TopKs :
          \E order \in Orderings(ExtractKeywords(query)) :
              IndexerSearch(query, top_k, order)

SpecIndexer == InitCompress /\ [][NextIndexer]_vars

(***************************************************************************)
(* SpecClear: writes to both layers and clear with each layer name, with   *)
(* a name no record has, with the empty name and without a name.           *)
(***************************************************************************)
ClearLayers == {"daily", "global", "weekly", "", None}

NextClear ==
    \/ RememberNote(MaxRemembers)
    \/ \E layer \in ClearLayers : Clear(layer)

SpecClear == InitCompress /\ [][NextClear]_vars

(***************************************************************************)
(* SpecSurvive: writes to both layers and clear of one layer or of both,   *)
(* on engines built with enable_vector_search True or False.               *)
(***************************************************************************)
NextSurvive ==
    \/ RememberNote(MaxRemembers)
    \/ \E layer \in Layers : Clear(layer)

SpecSurvive == InitCandidates /\ [][NextSurvive]_vars

(***************************************************************************)
(* SpecCount: writes, reads that return one or two records, compress,      *)
(* clear of the daily layer and get_stats.                                 *)
(***************************************************************************)
NextCount ==
    \/ \E note \in {n \in Notes : n.content = TextAb} :
          Remember(note.content, note.context, FreshUuids(1)[1], MaxRemembers)
    \/ \E top_k \in TopKs :
          \E order \in Orderings(ExtractKeywords(TextAb)) :
              Recall(TextAb, None, top_k, TRUE, order)
    \/ Compress("importance")
    \/ GetStats
    \/ Clear("daily")

SpecCount == InitCompress /\ [][NextCount]_vars

(***************************************************************************)
(* SpecSop: up to MaxRuns execute_sop calls on one SOPEngine, which may be *)
(* in progress together: the quick and the default template and a list of  *)
(* custom steps whose first step has a role without an agent, with and     *)
(* without a callback for the step strategy_design.                        *)
(***************************************************************************)
CustomSteps ==
    <<SOPStep("survey", "general", <<>>),
      SOPStep("strategy_design", "strategy_design", <<"survey">>),
      SOPStep("risk_assessment", "risk_assessment", <<"strategy_design">>)>>

\* step_callbacks: none, or one for strategy_design that raises, or that
\* awaits and then returns or raises
StepCallbacks ==
    {[k \in {} |-> "default"]} \cup
    {[strategy_design |-> kind] :
        kind \in {"raises", "sleeps_returns", "sleeps_raises"}}

NextSop ==
    \/ \E run \in 1..MaxRuns, template \in {"quick", "default"},
          custom_steps \in {<<>>, CustomSteps}, step_callbacks \in StepCallbacks :
          ExecuteSop(run, template, custom_steps, step_callbacks)
    \/ \E run \in 1..MaxRuns : CallbackResumes(run)

SpecSop == InitCompress /\ [][NextSop]_vars

(***************************************************************************)
(* SpecCache: up to MaxCached writes, which fill the cache of 100 entries   *)
(* and go on: daily notes, and once the cache is about to be full global   *)
(* notes as well and reads of the global layer.                            *)
(***************************************************************************)
NextCache ==
    \/ Remember(TextAb, EmptyContext, FreshUuids(1)[1], MaxCached)
    \/ /\ Len(db) >= cfg.cache_max_size - 1
       /\ \/ Remember(TextCd, [global_level |-> "True"], FreshUuids(1)[1], MaxCached)
          \/ \E order \in Orderings(ExtractKeywords(TextCd)) :
                Recall(TextCd, "global", 1, TRUE, order)

SpecCache == InitCompress /\ [][NextCache]_vars

(***************************************************************************)
(* SpecRecall: writes and reads with every argument of recall.             *)
(***************************************************************************)
\* "ab" followed by one character that is no word character
TextAbDot == Text(<<"a", "b">>, 1)

RecallNotes ==
    {[content |-> TextAb, context |-> [global_level |-> "True"]],
     [content |-> TextAbDot, context |-> EmptyContext],
     [content |-> TextCd, context |-> [type |-> "'decision'"]]}

NextRecall ==
    \/ \E note \in RecallNotes :
          Remember(note.content, note.context, FreshUuids(1)[1], MaxRemembers + 1)
    \/ \E query \in Queries, layer \in {None, "daily"}, use_hybrid \in BOOLEAN :
          \E order \in Orderings(ExtractKeywords(query)) :
              Recall(query, layer, 1, use_hybrid, order)

SpecRecall == InitCompress /\ [][NextRecall]_vars

(***************************************************************************)
(* Properties of remember and recall.                                      *)
(***************************************************************************)
\* C1: after remember(content) has returned id X, a recall with the same
\* content as its query and no layer filter, issued next, returns a list that
\* contains X, whatever top_k and use_hybrid are.
C1_RecallFindsJustRemembered ==
    (ret.op = "remember" /\ ret.id # NoId) =>
        \A top_k \in TopKs, use_hybrid \in BOOLEAN :
            \A order \in Orderings(ExtractKeywords(ret.content)) :
                ret.id \in Ids(RecallResult(Engine, ret.content, None, top_k,
                                            use_hybrid, order, cfg))

\* The rows of a layer, in rowid order
InLayer(rows, layer) == SelectSeq(rows, LAMBDA r : r.layer = layer)

\* Where the row with this id stands in a recall result, 0 when absent
Position(result, id) ==
    IF id \in Ids(result)
    THEN CHOOSE i \in 1..Len(result) : result[i].id = id
    ELSE 0

\* C7: for a query with at least one extracted term, a stored record A that
\* has every term of the query and a stored record B that has none, both
\* passing the layer filter: B is never returned while A is left out, and when
\* both are returned A stands before B.
C7_FullMatchAboveNoMatch ==
    \A query \in Queries, layer \in Layers, top_k \in TopKs, use_hybrid \in BOOLEAN :
        \A order \in Orderings(ExtractKeywords(query)) :
            LET terms == ExtractKeywords(query)
                rows == IF layer = None THEN db ELSE InLayer(db, layer)
                result == RecallResult(Engine, query, layer, top_k, use_hybrid,
                                       order, cfg)
            IN  terms # {} =>
                    \A i, j \in 1..Len(rows) :
                        (terms \subseteq rows[i].keywords
                         /\ terms \cap rows[j].keywords = {}) =>
                            /\ rows[j].id \in Ids(result) => rows[i].id \in Ids(result)
                            /\ (rows[j].id \in Ids(result) /\ rows[i].id \in Ids(result))
                                   => Position(result, rows[i].id)
                                          < Position(result, rows[j].id)

(***************************************************************************)
(* Properties of the indices.                                              *)
(***************************************************************************)
\* The ids the keyword index refers to
IndexedIds(idx) == UNION {Range(idx[k]) : k \in DOMAIN idx}

\* C2: whenever no call is in progress, every id the keyword index or the
\* vector store refers to is the id of a stored record.
C2_NoDanglingIds ==
    /\ IndexedIds(index) \subseteq Ids(db)
    /\ Range(VectorIds(vectors)) \subseteq Ids(db)

\* C8: when clear returns, the keyword index, the vector store and the cache
\* are all empty.
C8_ClearEmptiesIndices ==
    ret.op = "clear" =>
        /\ index = EmptyIndex
        /\ vectors = <<>>
        /\ cache = <<>>

(***************************************************************************)
(* Properties of compress.                                                 *)
(***************************************************************************)
\* C3: when a compress call has returned, the daily layer holds at most
\* max_daily_memories records and the global layer at most
\* global_memories_limit.
C3_CompressWithinCapacity ==
    ret.op = "compress" =>
        /\ Len(InLayer(db, "daily")) <= cfg.max_daily_memories
        /\ Len(InLayer(db, "global")) <= cfg.global_memories_limit

C3_Witness ==
    /\ ret.op = "compress"
    /\ ret.deleted_count > 0
    /\ Len(InLayer(db, "daily")) = cfg.max_daily_memories

\* a ranks strictly above b by (importance, access_count)
RanksAbove(a, b) ==
    \/ a.importance > b.importance
    \/ a.importance = b.importance /\ a.access_count > b.access_count

Capacity(c, layer) ==
    IF layer = "daily" THEN c.max_daily_memories ELSE c.global_memories_limit

\* What a compress step does to one layer
CompressedTo(before, after, capacity) ==
    IF Len(before) > capacity
    THEN /\ Len(after) = capacity
         /\ Ids(after) \subseteq Ids(before)
         /\ \A i \in 1..Len(before), j \in 1..Len(after) :
                before[i].id \notin Ids(after) => ~RanksAbove(before[i], after[j])
    ELSE after = before

\* C4: a compress call leaves exactly the capacity in a layer that held more,
\* no deleted record of the layer ranks above a kept one by (importance
\* descending, access_count descending), and a layer at or under its capacity
\* loses nothing.
C4_CompressKeepsTopRanked ==
    [][ret'.op = "compress" =>
          \A layer \in {"daily", "global"} :
              CompressedTo(InLayer(db, layer), InLayer(db', layer),
                           Capacity(cfg, layer))]_vars

C4_Witness ==
    /\ ret.op = "compress"
    /\ ret.deleted_count = 1
    /\ Len(InLayer(db, "daily")) = 1
    /\ \E i \in 1..Len(db) : db[i].layer = "global" /\ db[i].access_count > 0

\* C5: a compress call that directly follows a compress call deletes nothing
\* and reports the remaining_count the first one reported.
C5_CompressTwice ==
    (ret.op = "compress" /\ ret.after.op = "compress") =>
        /\ ret.deleted_count = 0
        /\ ret.remaining_count = ret.after.remaining_count

C5_Witness ==
    /\ ret.op = "compress"
    /\ ret.after.op = "compress"
    /\ ret.after.deleted_count > 0

(***************************************************************************)
(* Properties of export, clear and import.                                 *)
(***************************************************************************)
\* C6: when export of all layers, clear of all layers and import of the
\* exported file have run in this order with no other call of the caller in
\* between, the store holds as many records when import returns as it held
\* before the export.
C6_RoundTripCount ==
    (ret.op = "import" /\ rt[1] = 3) => Len(db) = rt[2]

C6_Witness ==
    /\ ret.op = "import"
    /\ rt[1] = 3
    /\ rt[2] >= 2
    /\ \E i \in 1..Len(db) : db[i].layer = "global"

(***************************************************************************)
(* Properties of the ids.                                                  *)
(***************************************************************************)
\* No two entries of the sequence are equal
Distinct(s) == \A i, j \in 1..Len(s) : i # j => s[i] # s[j]

RowIds(rows) == [i \in 1..Len(rows) |-> rows[i].id]

C10_ImportanceHeuristic ==
    /\ \A i \in 1..Len(db) :
           /\ db[i].importance >= 0
           /\ db[i].importance <= 1000
           /\ Get(JsonLoads(db[i].context), "type") = "'decision'"
                  => db[i].importance >= 650
    /\ (ret.op = "remember" /\ ret.id # NoId) =>
           LET n == Length(ret.content)
               sum == 500
                      + (IF n > 500 THEN 100 ELSE IF n > 200 THEN 50 ELSE 0)
                      + (IF Get(ret.context, "importance")
                               \in {"True", "1"} THEN 200 ELSE 0)
                      + (IF Get(ret.context, "type")
                               \in {"'decision'", "'preference'", "'commitment'"}
                         THEN 150 ELSE 0)
                      + (IF Get(ret.context, "source") = "'user'" THEN 100 ELSE 0)
               clamped == IF sum > 1000 THEN 1000 ELSE sum
               stored == db[Len(db)].importance
           IN  /\ stored - clamped <= 1
               /\ clamped - stored <= 1

\* The sum passed 1.0 and was clamped
C10_Witness ==
    /\ ret.op = "remember"
    /\ Length(ret.content) > 500
    /\ Get(ret.context, "importance") = "True"
    /\ Get(ret.context, "type") = "'decision'"
    /\ Get(ret.context, "source") = "'user'"
    /\ db[Len(db)].importance = 1000

(***************************************************************************)
(* Properties of what recall returns and of what it writes.                *)
(***************************************************************************)
\* C11: a recall call adds exactly 1 to access_count and stamps last_access
\* of every record in the list it returns, and leaves access_count and
\* last_access of every other stored record as they were.
C11_RecallCountsAccess ==
    [][ret'.op = "recall" =>
          /\ Len(db') = Len(db)
          /\ \A i \in 1..Len(db) :
                IF db[i].id \in Range(ret'.result)
                THEN /\ db'[i].access_count = db[i].access_count + 1
                     /\ db'[i].last_access # Never
                     /\ db'[i].last_access = now
                ELSE /\ db'[i].access_count = db[i].access_count
                     /\ db'[i].last_access = db[i].last_access]_vars

C11_Witness ==
    /\ ret.op = "recall"
    /\ Len(ret.result) = 2
    /\ \E i, j \in 1..Len(db) :
          /\ db[i].id \in Range(ret.result)
          /\ db[i].access_count = 1
          /\ db[j].id \notin Range(ret.result)
          /\ db[j].access_count = 0
          /\ db[j].last_access = Never

\* The stored row with this id
RowOf(rows, id) == rows[CHOOSE i \in 1..Len(rows) : rows[i].id = id]

\* a stands before b in the eligible set: higher importance, then the more
\* recent timestamp
EligibleBefore(a, b) ==
    \/ a.importance > b.importance
    \/ a.importance = b.importance /\ a.timestamp > b.timestamp

\* What a returned list must be, given the rows that passed the candidate filter
RankedCut(result, survivors, query, top_k) ==
    LET score(r) == CalculateRelevance(query, r.content, r.keywords)
    IN  /\ Len(result) <= top_k
        /\ \A i, j \in 1..Len(result) :
              i < j => /\ score(result[i]) >= score(result[j])
                       /\ score(result[i]) = score(result[j])
                              => EligibleBefore(result[i], result[j])
        /\ \A i \in 1..Len(result), k \in 1..Len(survivors) :
              survivors[k].id \notin Ids(result)
                  => score(survivors[k]) <= score(result[i])

\* C12: recall returns at most top_k records in non-increasing score order,
\* equal scores in eligible-set order (importance, then recency), and no
\* record that passed the candidate filter and was left out scores strictly
\* higher than a returned one.
C12_RecallRankedCut ==
    ret.op = "recall" =>
        \E order \in Orderings(ExtractKeywords(ret.query)) :
            LET candidate_ids == CandidateIds(Engine, ret.query, ret.top_k,
                                              ret.use_hybrid, order, cfg)
                rows == IF ret.layer = None THEN db ELSE InLayer(db, ret.layer)
                survivors == SelectSeq(rows, LAMBDA r :
                                 candidate_ids = {} \/ r.id \in candidate_ids)
                result == [i \in 1..Len(ret.result) |-> RowOf(db, ret.result[i])]
            IN  RankedCut(result, survivors, ret.query, ret.top_k)

C12_Witness ==
    /\ ret.op = "recall"
    /\ ret.top_k = 2
    /\ Len(ret.result) = 2
    /\ Len(db) = 3
    /\ CalculateRelevance(ret.query, RowOf(db, ret.result[1]).content,
                          RowOf(db, ret.result[1]).keywords)
         > CalculateRelevance(ret.query, RowOf(db, ret.result[2]).content,
                              RowOf(db, ret.result[2]).keywords)

(***************************************************************************)
(* Properties of the background compression.                               *)
(***************************************************************************)
\* Every row of before is a row of after
AllKept(before, after) == \A i \in 1..Len(before) : before[i] \in Range(after)

\* C13: remember returns the new id with its compression check still
\* pending and deletes nothing itself; a check task exists only when
\* compression is enabled, and it runs compress exactly when the record count
\* it reads has reached compression_threshold, so below the threshold or with
\* compression disabled no record is deleted.
C13_BackgroundCompression ==
    [][/\ ret'.op = "remember" =>
              /\ AllKept(db, db')
              /\ tasks' = IF cfg.enable_compression /\ ret'.id # NoId
                          THEN tasks + 1 ELSE tasks
       /\ ret'.op = "_check_compression" =>
              /\ cfg.enable_compression
              /\ ret'.compressed = (Len(db) >= cfg.compression_threshold)
              /\ ~ret'.compressed => db' = db
       /\ (~cfg.enable_compression \/ Len(db) < cfg.compression_threshold)
              => AllKept(db, db')]_vars

\* A check below the threshold has left a global layer over its capacity alone
C13_Witness ==
    /\ ret.op = "_check_compression"
    /\ ~ret.compressed
    /\ Len(InLayer(db, "global")) > cfg.global_memories_limit

(***************************************************************************)
(* Properties of import over hand-written files.                           *)
(***************************************************************************)
\* An entry import can parse: an object whose content, when given, is a
\* string and whose context, when given, is the JSON text of an object
WellFormed(entry) ==
    \/ "shape" \notin DOMAIN entry
    \/ entry.shape \in {"no content", "no context"}

C15_SaveFailureSurfaced ==
    /\ ret.op = "remember" /\ ret.fault \in SaveFaults => ret.raised
    /\ ret.op = "compress" /\ ret.fault \in SaveFaults /\ ret.deleted_count > 0
          => ret.raised

\* C16: a remember that fails with a storage error leaves the stored records
\* exactly as they were, and neither the keyword index nor the vector store
\* holds the id it was writing.
C16_FailedRememberStoresNothing ==
    [][ret'.op = "remember" /\ ret'.raised =>
          /\ db' = db
          /\ ret'.memory_id \notin Ids(db')
          /\ ret'.memory_id \notin IndexedIds(index')
          /\ ret'.memory_id \notin Range(VectorIds(vectors'))]_vars

\* A remember has failed on a store that holds a record
C16_Witness ==
    /\ ret.op = "remember"
    /\ ret.raised
    /\ ret.fault = "insert"
    /\ db # <<>>

\* remember of a note and recall of its text on the engine as it stands
Usable ==
    \E r \in {DoRemember(Engine, TextAb, EmptyContext, FreshUuids(1)[1], clock, cfg)} :
        /\ r.returned # NoId
        /\ r.returned \in Ids(r.db)
        /\ \A order \in Orderings(ExtractKeywords(TextAb)) :
              LET hit == RecallResult(r, TextAb, None, 1, TRUE, order, cfg)
              IN  Len(hit) = 1 /\ hit[1].id \in Ids(r.db)

\* C17: the constructor returns an engine whatever the state of the two index
\* files; an index whose file is missing or cannot be read starts empty, and
\* the engine then takes a remember and answers a recall.
C17_ConstructTolerant ==
    ret.op = "construct" =>
        /\ ~ret.raised
        /\ ~Readable(indexFile) => index = EmptyIndex
        /\ ~Readable(vectorsFile) => vectors = <<>>
        /\ Usable

\* An engine has been constructed over a corrupt keyword_index.json and a
\* missing vectors.json while records are stored
C17_Witness ==
    /\ ret.op = "construct"
    /\ indexFile = CorruptFile
    /\ vectorsFile = NoFile
    /\ db # <<>>
    /\ index = EmptyIndex

(***************************************************************************)
(* Properties of the vector store's search.                                *)
(***************************************************************************)
\* The embedding stored under an id
EmbeddingOf(vs, id) == (CHOOSE e \in Range(vs) : e.id = id).embedding

\* C18: on a build where numpy was found, search returns the top_k stored ids
\* that are not excluded, in descending order of cosine similarity to the
\* query vector (0.0 for a vector of zero norm): no id it returns is less
\* similar than one it returns later or one it leaves out.
C18_SearchRanksByCosine ==
    ret.op = "search" /\ cfg.VECTOR_AVAILABLE =>
        LET kept == {id \in Range(VectorIds(vectors)) : id \notin ret.exclude_ids}
            q == ret.query_embedding
            found == ret.result
        IN  /\ Len(found) = Min2(ret.top_k, Cardinality(kept))
            /\ Range(found) \subseteq kept
            /\ Distinct(found)
            /\ \A i, j \in 1..Len(found) :
                  i < j => ~MoreSimilar(q, EmbeddingOf(vectors, found[j]),
                                        EmbeddingOf(vectors, found[i]))
            /\ \A id \in kept \ Range(found) : \A i \in 1..Len(found) :
                  ~MoreSimilar(q, EmbeddingOf(vectors, id),
                               EmbeddingOf(vectors, found[i]))

Fixed(row) ==
    [id |-> row.id, content |-> row.content, context |-> row.context,
     layer |-> row.layer, keywords |-> row.keywords,
     importance |-> row.importance, timestamp |-> row.timestamp]

\* C20: in every step, each record that is stored before and after it keeps
\* its content, context, layer, keywords, importance and creation timestamp;
\* a recall, compress, get_stats or export step, or a clear of another layer,
\* changes at most access_count and last_access of the records that stay.
C20_RecordsImmutable ==
    [][\A i \in 1..Len(db), j \in 1..Len(db') :
          db[i].id = db'[j].id => Fixed(db'[j]) = Fixed(db[i])]_vars

\* A record has been recalled, has outlived a compress that deleted another
\* record, and a clear of the other layer has just returned
C20_Witness ==
    /\ ret.op = "clear"
    /\ ret.deleted_count > 0
    /\ \E i \in 1..Len(db) : db[i].access_count > 0
    /\ Len(issued) - Len(db) > ret.deleted_count

(***************************************************************************)
(* Properties of calls that run between each other's storage operations.   *)
(***************************************************************************)
\* C21: a recall that runs between the storage operations of compress and
\* clear returns normally, and every record it returns is one of the rows it
\* read from the store: a candidate id the indices gave that has no row among
\* them is passed over.
C21_RecallSkipsMisses ==
    (ret.op = "recall" /\ "read" \in DOMAIN ret) =>
        /\ ~ret.raised
        /\ Range(ret.result) \subseteq ret.read
        /\ Len(ret.result) <= ret.top_k

\* A recall has returned a record while the indices gave it a candidate id
\* that had no row when it read the store
C21_Witness ==
    /\ ret.op = "recall"
    /\ "read" \in DOMAIN ret
    /\ ret.result # <<>>
    /\ \E id \in ret.candidate_ids : id \notin ret.read

\* The ids a compress or clear in progress has deleted from the store
BeingDeleted ==
    (IF inflight.compress.pc = "deleted" THEN Range(inflight.compress.deleted) ELSE {})
    \cup (IF inflight.clear.pc = "deleted" THEN inflight.clear.deleted ELSE {})

\* C22: while a compress or a clear is in progress, no id it has deleted from
\* the store is still in the keyword index or in the vector store.
C22_IndexRemovedFirst ==
    \A id \in BeingDeleted :
        id \notin Ids(db) =>
            /\ id \notin IndexedIds(index)
            /\ id \notin Range(VectorIds(vectors))

(***************************************************************************)
(* Progress of the background compression.                                 *)
(***************************************************************************)
WithinCapacity ==
    /\ Len(InLayer(db, "daily")) <= cfg.max_daily_memories
    /\ Len(InLayer(db, "global")) <= cfg.global_memories_limit

\* C23: with compression enabled, a remember that returns with the record
\* count at or above compression_threshold is followed, when the event loop
\* runs the tasks it holds, by a check that runs compress, after which every
\* layer holds at most its capacity.
C23_CompressionEventuallyRuns ==
    (/\ cfg.enable_compression
     /\ ret.op = "remember"
     /\ ~ret.raised
     /\ Len(db) >= cfg.compression_threshold)
    ~> (ret.op = "_check_compression" /\ ret.compressed /\ WithinCapacity)

\* A check has run compress, which deleted a record, and no task is pending
C23_Witness ==
    /\ cfg.enable_compression
    /\ ret.op = "_check_compression"
    /\ ret.compressed
    /\ Len(db) < Len(issued)
    /\ tasks = 0

(***************************************************************************)
(* Properties of the candidate ids of recall.                              *)
(***************************************************************************)
\* The rows with these ids, in the order of the ids
RowsOf(rows, ids) == [i \in 1..Len(ids) |-> RowOf(rows, ids[i])]

\* C24: a recall whose index searches gave no candidate id scores every row
\* of the layer asked for and returns the top_k best of them; a recall with
\* candidate ids returns only rows whose id is a candidate, the top_k best of
\* those of the layer asked for.
C24_EmptyCandidatesNoFilter ==
    [][ret'.op = "recall" =>
          LET rows == IF ret'.layer = None THEN db ELSE InLayer(db, ret'.layer)
              survivors == SelectSeq(rows, LAMBDA r : r.id \in ret'.candidate_ids)
              result == RowsOf(db, ret'.result)
          IN  IF ret'.candidate_ids = {}
              THEN /\ Len(result) = Min2(ret'.top_k, Len(rows))
                   /\ Range(result) \subseteq Range(rows)
                   /\ RankedCut(result, rows, ret'.query, ret'.top_k)
              ELSE /\ Range(ret'.result) \subseteq ret'.candidate_ids
                   /\ Len(result) = Min2(ret'.top_k, Len(survivors))
                   /\ Range(result) \subseteq Range(survivors)
                   /\ RankedCut(result, survivors, ret'.query, ret'.top_k)]_vars

\* A recall without candidate ids has returned a record that has none of the
\* query's terms
C24_Witness ==
    /\ ret.op = "recall"
    /\ ret.candidate_ids = {}
    /\ ret.result # <<>>
    /\ RowOf(db, ret.result[1]).keywords \cap ExtractKeywords(ret.query) = {}

\* The ids of a KeywordIndexer.search result
KeywordIds(idx, order, top_k) ==
    {pair[1] : pair \in Range(IndexSearch(idx, order, top_k))}

\* C25: the candidate ids of a recall are the top 2 * top_k ids of the vector
\* store's search joined with the top 2 * top_k ids of the keyword index's
\* search when use_hybrid is set and vector search is enabled, and the latter
\* alone otherwise; in that case the recall returns what it would return
\* with an empty vector store.
C25_CandidateUnion ==
    [][ret'.op = "recall" =>
          \E order \in Orderings(ExtractKeywords(ret'.query)) :
              LET keyword_results == KeywordIds(index, order, 2 * ret'.top_k)
                  vector_results ==
                      Range(VectorSearch(vectors,
                                         CreateEmbedding(ret'.query, TRUE),
                                         2 * ret'.top_k, {},
                                         cfg.VECTOR_AVAILABLE, cfg.TFIDF_AVAILABLE))
              IN  IF ret'.use_hybrid /\ cfg.enable_vector_search
                  THEN ret'.candidate_ids = vector_results \cup keyword_results
                  ELSE /\ ret'.candidate_ids = keyword_results
                       /\ ret'.result =
                            RowIds(RecallResult([Engine EXCEPT !.vectors = <<>>],
                                                ret'.query, ret'.layer, ret'.top_k,
                                                ret'.use_hybrid, order, cfg))]_vars

\* A recall without use_hybrid has taken its candidates from the keyword
\* index while the vector store held an id that is not among them
C25_Witness ==
    /\ ret.op = "recall"
    /\ ~ret.use_hybrid
    /\ cfg.enable_vector_search
    /\ ret.candidate_ids # {}
    /\ \E id \in Range(VectorIds(vectors)) : id \notin ret.candidate_ids

(***************************************************************************)
(* Properties of the layer remember assigns.                               *)
(***************************************************************************)
\* The values drawn that Python takes as true
TrueValues == {"True", "1", "'user'", "(1,)"}

\* C26: the record a remember stores is in layer global when the context it
\* was given has global_level with a true value, and in layer daily when the
\* value is false, the key is missing or no context was given; no stored
\* record has another layer.
C26_LayerFromContext ==
    [][/\ (ret'.op = "remember" /\ ~ret'.raised) =>
             LET given == ret'.context
                 stored == RowOf(db', ret'.id)
             IN  stored.layer =
                     IF /\ given # NoContext
                        /\ "global_level" \in DOMAIN given
                        /\ given.global_level \in TrueValues
                     THEN "global" ELSE "daily"
       /\ \A i \in 1..Len(db') : db'[i].layer \in {"daily", "global"}]_vars

\* A remember without a context has stored a daily record after a remember
\* with a true global_level stored a global one
C26_Witness ==
    /\ ret.op = "remember"
    /\ ret.context = NoContext
    /\ Len(db) = 2
    /\ db[1].layer = "global"
    /\ db[2].layer = "daily"

(***************************************************************************)
(* Properties of the keyword index.                                        *)
(***************************************************************************)
\* The query terms whose posting list holds the id
TermsWith(idx, terms, id) == {k \in terms \cap DOMAIN idx : id \in Range(idx[k])}

\* a is met before b when the posting lists are walked in the order of the
\* query's terms, each from its front
MetBefore(idx, order, a, b) ==
    \E t \in 1..Len(order) :
        /\ order[t] \in DOMAIN idx
        /\ a \in Range(idx[order[t]])
        /\ \A u \in 1..(t - 1) :
              order[u] \in DOMAIN idx =>
                  a \notin Range(idx[order[u]]) /\ b \notin Range(idx[order[u]])
        /\ b \in Range(idx[order[t]]) =>
              Position([i \in 1..Len(idx[order[t]]) |-> [id |-> idx[order[t]][i]]], a)
                < Position([i \in 1..Len(idx[order[t]]) |-> [id |-> idx[order[t]][i]]], b)

\* C27: a search of the keyword index returns each id that is in the posting
\* list of at least one term of the query, with the number of the query's
\* terms whose posting list holds it, highest number first and equal numbers
\* in the order the ids were first met, cut to top_k; no other id is returned.
C27_KeywordSearchRanks ==
    ret.op = "keyword_search" =>
        LET terms == Range(ret.order)
            found == ret.result
            matching == {id \in IndexedIds(index) : TermsWith(index, terms, id) # {}}
            returned == {found[i][1] : i \in 1..Len(found)}
            before(a, b) ==
                \/ Cardinality(TermsWith(index, terms, a))
                     > Cardinality(TermsWith(index, terms, b))
                \/ /\ Cardinality(TermsWith(index, terms, a))
                        = Cardinality(TermsWith(index, terms, b))
                   /\ MetBefore(index, ret.order, a, b)
        IN  /\ returned \subseteq matching
            /\ Len(found) = Min2(ret.top_k, Cardinality(matching))
            /\ Cardinality(returned) = Len(found)
            /\ \A i \in 1..Len(found) :
                  found[i][2] = Cardinality(TermsWith(index, terms, found[i][1]))
            /\ \A i, j \in 1..Len(found) :
                  i < j => before(found[i][1], found[j][1])
            /\ \A id \in matching \ returned : \A i \in 1..Len(found) :
                  before(found[i][1], id)

\* A search for two terms has put an id that has both before an id that has
\* one and was met first, and has left a matching id out
C27_Witness ==
    /\ ret.op = "keyword_search"
    /\ Len(ret.order) = 2
    /\ Len(ret.result) = 1
    /\ ret.result[1][2] = 2
    /\ \E id \in IndexedIds(index) :
          /\ id # ret.result[1][1]
          /\ MetBefore(index, ret.order, id, ret.result[1][1])

\* No posting list is empty or holds an id twice
WellFormedIndex(idx) == \A k \in DOMAIN idx : idx[k] # <<>> /\ Distinct(idx[k])

\* C28: after every add and remove the keyword index has no empty posting
\* list and no posting list with an id twice; after remove(id) no posting
\* list holds id; after add(id, content) every term of content lists id, and
\* the same add once more changes nothing.
C28_IndexWellFormed ==
    [][/\ WellFormedIndex(index')
       /\ ret'.op = "remove" => ret'.memory_id \notin IndexedIds(index')
       /\ ret'.op = "add" =>
             /\ \A k \in ExtractKeywords(ret'.content) :
                   k \in DOMAIN index' /\ ret'.memory_id \in Range(index'[k])
             /\ IndexAdd(index', ret'.memory_id, ret'.content) = index']_vars

\* A remove has emptied the posting list of one term and left another term
\* with the other id
C28_Witness ==
    /\ ret.op = "remove"
    /\ DOMAIN index = {"cd"}
    /\ Len(index["cd"]) = 1
    /\ ret.memory_id \notin IndexedIds(index)

(***************************************************************************)
(* Properties of the cache.                                                *)
(***************************************************************************)
\* C29: when a remember returns the cache holds at most 100 entries and the
\* entry of the record just written is its newest; a remember that finds 100
\* entries drops the oldest-inserted one and no other, whatever was recalled
\* in between; a recall leaves the cache as it is.
C29_CacheFifo ==
    [][/\ (ret'.op = "remember" /\ ~ret'.raised) =>
             /\ Len(cache') <= 100
             /\ cache'[Len(cache')] = ret'.id
             /\ cache' = IF Len(cache) = 100
                         THEN Append(Tail(cache), ret'.id)
                         ELSE Append(cache, ret'.id)
       /\ ret'.op = "recall" => cache' = cache]_vars

\* The second remember over a full cache has returned after a recall of a
\* cached record: the cache holds the last 100 ids issued
C29_Witness ==
    /\ ret.op = "remember"
    /\ Len(issued) = 102
    /\ Len(cache) = 100
    /\ cache[1] = issued[3]
    /\ \E i \in 1..Len(db) : db[i].access_count > 0 /\ db[i].id \in Range(cache)

(***************************************************************************)
(* Properties of clear.                                                    *)
(***************************************************************************)
\* C30: clear with a layer name leaves no record of that layer, leaves every
\* record of the other layer as it was, and returns the number of records
\* that were in the layer; clear without a name leaves the store empty.
C30_ClearByLayer ==
    [][ret'.op = "clear" =>
          IF ret'.layer = None THEN db' = <<>>
          ELSE ret'.layer # "" =>
                 /\ InLayer(db', ret'.layer) = <<>>
                 /\ db' = SelectSeq(db, LAMBDA r : r.layer # ret'.layer)
                 /\ ret'.deleted_count = Len(InLayer(db, ret'.layer))
                 /\ Len(db') = Len(db) - ret'.deleted_count]_vars

\* clear("global") has deleted a record and left a daily one
C30_Witness ==
    /\ ret.op = "clear"
    /\ ret.layer = "global"
    /\ ret.deleted_count > 0
    /\ InLayer(db, "daily") # <<>>

(***************************************************************************)
(* Properties of the records a clear of one layer leaves.                  *)
(***************************************************************************)
\* The record is in the posting list of each of its keywords, and in the
\* vector store when the engine creates embeddings
InIndices(r) ==
    /\ \A k \in r.keywords : k \in DOMAIN index /\ r.id \in Range(index[k])
    /\ cfg.enable_vector_search => r.id \in Range(VectorIds(vectors))

\* A recall of the record's own content in its layer, with a top_k that cuts
\* neither the candidates nor the results, returns it
Selectable(r) ==
    \A order \in Orderings(ExtractKeywords(r.content)), use_hybrid \in BOOLEAN :
        r.id \in Ids(RecallResult(Engine, r.content, r.layer, MaxRemembers,
                                  use_hybrid, order, cfg))

C32_CacheKeysStored == Range(cache) \subseteq Ids(db)

(***************************************************************************)
(* Properties of the access counts.                                        *)
(***************************************************************************)
\* 1 if the step is a recall that returned the id, else 0
ReturnedBy(op, result, id) ==
    IF op = "recall" /\ id \in Range(result) THEN 1 ELSE 0

\* C33: access_count counts the recalls that returned the record: a record
\* that appears in the store has count 0, every recall that returns a stored
\* record adds one to its count, and no other step changes the count of a
\* record that stays, so a count never decreases; total_access_count of
\* get_stats is the sum of the counts of the stored records.
C33_AccessCounted ==
    [][/\ \A j \in 1..Len(db') :
             IF db'[j].id \in Ids(db)
             THEN \A i \in 1..Len(db) :
                     db[i].id = db'[j].id =>
                        db'[j].access_count = db[i].access_count
                            + ReturnedBy(ret'.op, IF ret'.op = "recall"
                                                  THEN ret'.result ELSE <<>>,
                                         db[i].id)
             ELSE db'[j].access_count = 0
       /\ ret'.op = "get_stats" =>
             ret'.total_access_count =
                 Sum([j \in 1..Len(db') |-> db'[j].access_count])]_vars

\* get_stats reports two accesses after a recall that returned two records
\* and a deletion
C33_Witness ==
    /\ ret.op = "get_stats"
    /\ ret.total_access_count >= 2
    /\ Cardinality({i \in 1..Len(db) : db[i].access_count > 0}) >= 2
    /\ Len(issued) > Len(db)

(***************************************************************************)
(* Properties of SOPEngine.execute_sop.                                    *)
(***************************************************************************)
\* The execute_sop calls that have started
Started == {run \in 1..MaxRuns : sop.runs[run].pc # "idle"}

\* Every dependency of the k-th step of the run has an entry with status
\* "completed" before position k of the run's own steps_executed
DepsCompletedBefore(r, k) ==
    \A dep \in Range(r.steps[k].dependencies) :
        \E j \in 1..(k - 1) :
            /\ j <= Len(r.steps_executed)
            /\ r.steps_executed[j].step_id = dep
            /\ r.steps_executed[j].status = "completed"

\* C34: in every run, steps_executed has one entry per step handled so far,
\* in list order; a step whose callback is running or has run (status
\* completed or failed) has every dependency completed earlier in the same
\* run, and a step with a dependency that did not complete in the run is
\* recorded as skipped.
C34_DependenciesGateSteps ==
    \A run \in Started :
        LET r == sop.runs[run]
        IN  /\ Len(r.steps_executed) = r.i - 1
            /\ r.pc = "returned" => Len(r.steps_executed) = Len(r.steps)
            /\ \A k \in 1..Len(r.steps_executed) :
                  /\ r.steps_executed[k].step_id = r.steps[k].step_id
                  /\ r.steps_executed[k].status # "skipped"
                        => DepsCompletedBefore(r, k)
                  /\ ~DepsCompletedBefore(r, k)
                        => r.steps_executed[k].status = "skipped"
            /\ r.pc = "awaiting" => DepsCompletedBefore(r, r.i)

\* The number of entries of steps_executed whose status is not "completed"
NotCompleted(executed) == Len(executed) - Len(CompletedSteps(executed))

\* C35: for every result in execution_history, success is true exactly when
\* every step has status completed, exactly when final_output["success"] is
\* true and exactly when errors is empty; errors has one entry per step that
\* did not complete; execution_history has one result per run that returned.
C35_SuccessMeansAllCompleted ==
    /\ Len(sop.execution_history) =
           Cardinality({run \in Started : sop.runs[run].pc = "returned"})
    /\ \A n \in 1..Len(sop.execution_history) :
          LET result == sop.execution_history[n]
          IN  /\ result.success <=> NotCompleted(result.steps_executed) = 0
              /\ result.success <=> result.final_output.success
              /\ result.success <=> result.errors = <<>>
              /\ Len(result.errors) = NotCompleted(result.steps_executed)
              /\ Len(result.steps_executed) = result.metadata.steps_count

\* Two runs have returned: one with every step completed, one with a failed
\* step and a skipped step
C35_Witness ==
    /\ Len(sop.execution_history) = 2
    /\ \E n \in 1..2 : sop.execution_history[n].success
    /\ \E n \in 1..2 :
          LET executed == sop.execution_history[n].steps_executed
          IN  /\ \E k \in 1..Len(executed) : executed[k].status = "failed"
              /\ \E k \in 1..Len(executed) : executed[k].status = "skipped"
====
